---- MODULE Spec2Model ----
(***************************************************************************)
(* Model of the efimon daemon engine: the analyser (system collector and   *)
(* per-pid workers, src/src/tools/efimon-daemon/), the control loop of     *)
(* src/src/tools/efimon-daemon.cpp, the observers of src/src/efimon/       *)
(* (perf record and annotate, proc stat, powercap, IPMI) and the assembly  *)
(* classifier.                                                             *)
(*                                                                         *)
(* The specifications share the variables:                                 *)
(*   Spec       the analyser driven through its public operations, with    *)
(*              the worker threads interleaved with the control thread;    *)
(*   SpecWorker the same operations for the worker of one pid, with the    *)
(*              ticks and rows of its loop counted in a history variable;  *)
(*   SpecMain   main() of the daemon serving "system" requests, with the   *)
(*              system collector thread;                                   *)
(*   SpecLoop   main() of the daemon receiving well-formed and malformed   *)
(*              requests on its reply socket;                              *)
(*   SpecPerf   perf-record observers constructed, re-targeted and         *)
(*              dropped;                                                   *)
(*   SpecStat   a ProcStat observer of one process being triggered;        *)
(*   SpecIpmi   an IPMI observer: PSU power and integrated energy;         *)
(*   SpecRapl   a powercap observer: per-socket energy counters;           *)
(*   SpecAnnotate  a perf-annotate observer parsing annotator output;      *)
(*   SpecClassify  the x86 classifier applied to mnemonics and operand     *)
(*              classes, and the decomposition of the packed origin.       *)
(***************************************************************************)
EXTENDS Integers, Sequences, FiniteSets, TLC

(* ------------------------------ bounds --------------------------------- *)
\* largest process id of the modelled host (pid 0 is the invalid pid)
MaxPid == 1
\* largest finite sample budget a start request carries
MaxSamples == 2
\* largest sample budget tried where the workers of all pids interleave
MaxStart == 1
\* number of "system" requests whose replies are kept
MaxLog == 4
\* number of perf-record observer objects of SpecPerf
MaxObs == 2
\* largest pid the perf-record observers of SpecPerf are pointed at
MaxPerfPid == 2
\* perf-record observers re-targeted with SetPID
MaxMovers == 1
\* number of requests main() receives in SpecLoop
MaxRequests == 4

Pids == 1..MaxPid
AllPids == 0..MaxPid
ObsIds == 1..MaxObs
PerfPids == 0..MaxPerfPid

(* ---------------------------- status codes ----------------------------- *)
\* Status::Code, in declaration order; the code of a kind is its position
StatusKinds ==
  << "OK", "FILE_ERROR", "INVALID_PARAMETER", "INCOMPATIBLE_PARAMETER",
     "CONFIGURATION_ERROR", "REGISTER_IO_ERROR", "NOT_IMPLEMENTED",
     "MEMBER_ABSENT", "RESOURCE_BUSY", "NOT_FOUND", "LOGGER_CANNOT_OPEN",
     "LOGGER_CANNOT_INSERT", "NOT_READY", "ACCESS_DENIED" >>

\* the integer written by `code` for a kind of the enum
CodeOf(kind) == (CHOOSE i \in 1..Len(StatusKinds) : StatusKinds[i] = kind) - 1

VARIABLES
  alive,        \* pids with a /proc/<pid> entry
  workers,      \* proc_workers_: pid -> worker object (registered or not)
  sys,          \* sys_thread_, sys_running_ and the collector thread
  ctl,          \* the control thread: where it is and what it last got
  ret,          \* Status returned by the last completed operation
  active_pids,  \* record.cpp active_pids_ (a vector)
  log,          \* main(): the first MaxLog system requests and replies
  obs,          \* SpecPerf: the perf-record observer objects
  perf_ub,      \* SpecPerf: vector::erase(end()) has been executed
  hist,         \* SpecWorker: budget, ticks and rows of each worker loop
  sock,         \* SpecLoop: the reply socket of main() and its last request
  meter,        \* SpecStat, SpecRapl, SpecIpmi: one meter observer
  insn,         \* SpecAnnotate, SpecClassify: classifier input and output
  csv,          \* SpecCsv: one CSVLogger and the text of its file
  lister,       \* SpecLister: one ProcPsProcessLister
  launcher,     \* SpecLauncher: efimon-launcher, its child and its requests
  pcm           \* SpecIntel: priv:: statics of intel.cpp and the observers

vars ==
  << alive, workers, sys, ctl, ret, active_pids, log, obs, perf_ub, hist, sock,
     meter, insn, csv, lister, launcher, pcm >>

\* objects that a specification does not construct
NoCsv == [kind |-> "none"]
NoLister == [kind |-> "none"]
NoLauncher == [kind |-> "none"]
NoPcm == [kind |-> "none"]

(* ------------------------------ helpers -------------------------------- *)
InVec(v, x) == \E i \in 1..Len(v) : v[i] = x

\* std::find: index of the first occurrence, 0 for end()
Find(v, x) == IF InVec(v, x)
              THEN CHOOSE i \in 1..Len(v) : v[i] = x /\ \A j \in 1..(i-1) : v[j] # x
              ELSE 0

\* vector::erase(it) for a valid iterator
EraseAt(v, i) == [j \in 1..(Len(v)-1) |-> IF j < i THEN v[j] ELSE v[j+1]]

Min(a, b) == IF a < b THEN a ELSE b

\* build switch of worker.cpp (#ifdef ENABLE_PERF)
ENABLE_PERF == TRUE

(* --------------------------- worker objects ---------------------------- *)
\* EfimonWorker(name, pid, analyser): a constructed, not yet started worker
NewWorker ==
  [ registered |-> TRUE,  running |-> FALSE, thread |-> FALSE,
    pc |-> "none", samples |-> 0,
    proc_meter |-> FALSE, perf |-> FALSE,
    enabled_samples |-> FALSE, enabled_perf |-> FALSE, first_sample |-> TRUE,
    failed |-> FALSE, nthreads |-> 0 ]

\* no entry in proc_workers_
NoWorker == [NewWorker EXCEPT !.registered = FALSE]

\* no Status returned yet
\* (erased: the pid whose registration a SetPID took out of active_pids_, 0
\* for no registration taken out)
NoRet == [op |-> "none", pid |-> 0, code |-> "OK", pre |-> FALSE, thrown |-> FALSE,
          erased |-> 0]

Ret(op, pid, code, pre) ==
  [op |-> op, pid |-> pid, code |-> code, pre |-> pre, thrown |-> FALSE,
   erased |-> 0]

Thrown(op, pid, code, pre) ==
  [op |-> op, pid |-> pid, code |-> code, pre |-> pre, thrown |-> TRUE,
   erased |-> 0]

\* EfimonWorker::State(): the running flag as a Status code
State(w) == IF w.running THEN "RUNNING" ELSE "STOPPED"

\* PerfRecordObserver::CheckAlive / ProcStatObserver::CheckAlive
CheckAlive(pid) == pid \in alive

\* PerfRecordObserver constructor for pid # 0: the Status it throws, or OK
PerfRecordCtorCode(pid) ==
  IF ~CheckAlive(pid) THEN "NOT_FOUND"
  ELSE IF Find(active_pids, pid) # 0 THEN "RESOURCE_BUSY"
  ELSE "OK"

\* no PerfRecordObserver object
NoObserver == [live |-> FALSE, pid |-> 0, cmd_pid |-> 0, tmp_pid |-> 0, valid |-> FALSE]

\* the socket bound, no request received yet
NoSock ==
  [up |-> TRUE, req |-> "none", pid |-> 0, recvs |-> 0, sends |-> 0,
   replies |-> << >>]

\* no meter observer constructed
NoMeter == [kind |-> "none"]

\* no instruction handed to the classifier
NoInsn == [kind |-> "none"]

\* no loop counted yet
NoHist == [budget |-> 0, ticks |-> 0, rows |-> 0]

Init ==
  /\ alive = Pids
  /\ workers = [p \in AllPids |-> NoWorker]
  /\ sys = [thread |-> FALSE, running |-> FALSE, pc |-> "none", nthreads |-> 0]
  /\ ctl = [pc |-> "recv", pid |-> 0, state |-> FALSE]
  /\ ret = NoRet
  /\ active_pids = << >>
  /\ log = << >>
  /\ obs = [o \in ObsIds |-> NoObserver]
  /\ perf_ub = FALSE
  /\ hist = [p \in Pids |-> NoHist]
  /\ sock = NoSock
  /\ meter = NoMeter
  /\ insn = NoInsn
  /\ csv = NoCsv
  /\ lister = NoLister
  /\ launcher = NoLauncher
  /\ pcm = NoPcm

(* ------------------------- analyser operations ------------------------- *)
\* StartSystemThread without the test of sys_thread_
StartSystemThread_NoGuard ==
  /\ sys' = [sys EXCEPT !.running = TRUE, !.thread = TRUE,
                        !.pc = "start", !.nthreads = @ + 1]
  /\ ret' = Ret("start_system", 0, "OK", sys.thread)

\* EfimonAnalyser::StartSystemThread: the call, on sys and the Status
StartSystemThread ==
  IF sys.thread
  THEN /\ ret' = Ret("start_system", 0, "RESOURCE_BUSY", sys.thread)
       /\ UNCHANGED sys
  ELSE /\ sys' = [sys EXCEPT !.running = TRUE, !.thread = TRUE,
                             !.pc = "start", !.nthreads = @ + 1]
       /\ ret' = Ret("start_system", 0, "OK", sys.thread)

\* EfimonAnalyser::StopSystemThread up to the join
StopSystemThread ==
  IF ~sys.thread
  THEN /\ ret' = Ret("stop_system", 0, "NOT_FOUND", sys.thread)
       /\ UNCHANGED << sys, ctl >>
  ELSE /\ sys' = [sys EXCEPT !.running = FALSE]
       /\ ctl' = [pc |-> "join_sys", pid |-> 0, state |-> FALSE]
       /\ UNCHANGED ret

\* EfimonAnalyser::StopSystemThread from the return of join
StopSystemThreadJoined ==
  /\ sys.pc = "done"
  /\ sys' = [sys EXCEPT !.thread = FALSE, !.pc = "none", !.nthreads = @ - 1]
  /\ ret' = Ret("stop_system", 0, "OK", sys.thread)

\* EfimonWorker::Start on the freshly inserted worker w of pid
WorkerStart(w, pid, samples, enable_perf) ==
  IF pid = 0 THEN w
  ELSE LET w1 == [w EXCEPT !.samples = samples, !.proc_meter = TRUE]
       IN IF enable_perf /\ ENABLE_PERF /\ PerfRecordCtorCode(pid) # "OK"
          THEN w1
          ELSE [w1 EXCEPT !.perf = enable_perf /\ ENABLE_PERF,
                          !.thread = TRUE, !.pc = "start", !.nthreads = @ + 1]

\* the Status EfimonWorker::Start returns or throws
WorkerStartRet(pid, enable_perf, pre) ==
  IF pid = 0 THEN Ret("start_worker", pid, "CANNOT_OPEN", pre)
  ELSE IF enable_perf /\ ENABLE_PERF /\ PerfRecordCtorCode(pid) # "OK"
       THEN Thrown("start_worker", pid, PerfRecordCtorCode(pid), pre)
       ELSE Ret("start_worker", pid, "OK", pre)

\* StartWorkerThread without the lookup of pid: the entry is replaced while
\* the thread of the old worker goes on
StartWorkerThread_NoLookup(pid, samples, enable_perf) ==
  /\ ctl.pc = "recv"
  /\ workers' = [workers EXCEPT
       ![pid] = WorkerStart([NewWorker EXCEPT !.nthreads = workers[pid].nthreads],
                            pid, samples, enable_perf)]
  /\ ret' = WorkerStartRet(pid, enable_perf, workers[pid].registered)
  /\ active_pids' =
       IF pid # 0 /\ enable_perf /\ ENABLE_PERF /\ PerfRecordCtorCode(pid) = "OK"
       THEN Append(active_pids, pid) ELSE active_pids
  /\ UNCHANGED << alive, sys, ctl, log, obs, perf_ub, hist, sock,
               meter, insn,
                  csv, lister, launcher, pcm >>

\* EfimonAnalyser::StartWorkerThread
StartWorkerThread(pid, samples, enable_perf) ==
  /\ ctl.pc = "recv"
  /\ IF workers[pid].registered
     THEN /\ ret' = Ret("start_worker", pid, "RESOURCE_BUSY", workers[pid].registered)
          /\ UNCHANGED << workers, active_pids >>
     ELSE /\ workers' = [workers EXCEPT
                           ![pid] = WorkerStart(NewWorker, pid, samples, enable_perf)]
          /\ ret' = WorkerStartRet(pid, enable_perf, workers[pid].registered)
          /\ active_pids' =
               IF pid # 0 /\ enable_perf /\ ENABLE_PERF /\ PerfRecordCtorCode(pid) = "OK"
               THEN Append(active_pids, pid) ELSE active_pids
  /\ UNCHANGED << alive, sys, ctl, log, obs, perf_ub, hist, sock,
               meter, insn,
                  csv, lister, launcher, pcm >>

\* CheckWorkerThread that waits for the thread it reports on
CheckWorkerThread_Waits(pid) ==
  /\ ctl.pc = "recv"
  /\ ret' = Ret("check_worker", pid, "NOT_FOUND", workers[pid].registered)
  /\ ctl' = IF workers[pid].thread
            THEN [pc |-> "join_worker", pid |-> pid, state |-> FALSE] ELSE ctl
  /\ UNCHANGED << alive, workers, sys, active_pids, log, obs, perf_ub, hist, sock,
                  meter, insn, csv, lister, launcher, pcm >>

\* EfimonAnalyser::CheckWorkerThread
CheckWorkerThread(pid) ==
  /\ ctl.pc = "recv"
  /\ ret' = IF ~workers[pid].registered
            THEN Ret("check_worker", pid, "NOT_FOUND", workers[pid].registered)
            ELSE Ret("check_worker", pid, State(workers[pid]), workers[pid].registered)
  /\ UNCHANGED << alive, workers, sys, ctl, active_pids, log, obs, perf_ub, hist, sock,
               meter, insn,
                  csv, lister, launcher, pcm >>

\* EfimonAnalyser::StopWorkerThread up to the join inside EfimonWorker::Stop
StopWorkerThread(pid) ==
  /\ ctl.pc = "recv"
  /\ IF ~workers[pid].registered
     THEN /\ ret' = Ret("stop_worker", pid, "NOT_FOUND", workers[pid].registered)
          /\ UNCHANGED << workers, ctl >>
     ELSE IF pid = 0 \/ ~workers[pid].thread
          THEN \* Stop returns at once; the entry is erased and destroyed
               /\ workers' = [workers EXCEPT ![pid] = NoWorker]
               /\ ret' = Ret("stop_worker", pid, "OK", workers[pid].registered)
               /\ UNCHANGED ctl
          ELSE /\ workers' = [workers EXCEPT ![pid].running = FALSE]
               /\ ctl' = [pc |-> "join_worker", pid |-> pid, state |-> FALSE]
               /\ UNCHANGED ret
  /\ UNCHANGED << alive, sys, active_pids, log, obs, perf_ub, hist, sock,
               meter, insn,
                  csv, lister, launcher, pcm >>

\* EfimonWorker::Stop from the return of join, then the erase
JoinWorkerThread ==
  /\ ctl.pc = "join_worker"
  /\ workers[ctl.pid].pc = "done"
  /\ workers' = [workers EXCEPT ![ctl.pid] = NoWorker]
  /\ ret' = Ret("stop_worker", ctl.pid, "OK", workers[ctl.pid].registered)
  /\ ctl' = [pc |-> "recv", pid |-> 0, state |-> FALSE]
  /\ UNCHANGED << alive, sys, active_pids, log, obs, perf_ub, hist, sock,
               meter, insn,
                  csv, lister, launcher, pcm >>

(* ---------------------------- worker thread ---------------------------- *)
\* ProcStatsWorker, lines 119-141, on the worker: set the flag, bind the
\* readings, open the log
ProcStatsWorkerBeginStep(p) ==
  /\ workers[p].pc = "start"
  /\ workers' = [workers EXCEPT
       ![p].running = TRUE,
       ![p].first_sample = TRUE,
       ![p].enabled_perf = workers[p].perf,
       ![p].enabled_samples = (workers[p].samples # 0),
       ![p].pc = "check"]
  /\ UNCHANGED << alive, sys, ctl, ret, active_pids, log, obs, perf_ub, sock,
                 meter, insn,
                  csv, lister, launcher, pcm >>

ProcStatsWorkerBegin(p) ==
  /\ ProcStatsWorkerBeginStep(p)
  /\ UNCHANGED hist

\* ProcStatsWorker, line 143: the loop condition
ProcStatsWorkerCheck(p) ==
  /\ workers[p].pc = "check"
  /\ workers' = [workers EXCEPT
       ![p].pc = IF workers[p].running THEN "body" ELSE "done"]
  /\ UNCHANGED << alive, sys, ctl, ret, active_pids, log, obs, perf_ub, hist, sock,
               meter, insn,
                  csv, lister, launcher, pcm >>

\* EfimonWorker::RefreshProcStat: OK iff every observer of the worker triggers
RefreshProcStat(w, p, perf_ok) ==
  IF ~CheckAlive(p) THEN "NOT_FOUND"
  ELSE IF w.perf /\ ~perf_ok THEN "FILE_ERROR"
  ELSE "OK"

\* the body of the loop of ProcStatsWorker, lines 144-162, on the worker
TickBody(w, refresh) ==
  IF refresh # "OK"
  THEN [w EXCEPT !.pc = "done", !.failed = TRUE]
  ELSE LET ticked == [w EXCEPT !.first_sample = FALSE, !.pc = "check"]
       IN IF w.enabled_samples
          THEN [ticked EXCEPT !.samples = (@ - 1) % (MaxSamples + 1),
                              !.running = IF w.samples = 1 THEN FALSE ELSE @]
          ELSE ticked

\* ProcStatsWorker, lines 144-162, on the worker: one iteration of the loop
ProcStatsWorkerBodyStep(p, perf_ok) ==
  /\ workers[p].pc = "body"
  /\ workers' = [workers EXCEPT
       ![p] = TickBody(@, RefreshProcStat(@, p, perf_ok))]
  /\ UNCHANGED << alive, sys, ctl, ret, active_pids, log, obs, perf_ub, sock,
                 meter, insn,
                  csv, lister, launcher, pcm >>

ProcStatsWorkerBody(p) ==
  /\ \E perf_ok \in BOOLEAN : ProcStatsWorkerBodyStep(p, perf_ok)
  /\ UNCHANGED hist

(* ------------------------ system collector thread ---------------------- *)
\* SystemStatsWorker, lines 170-181
SystemStatsWorkerBegin ==
  /\ sys.pc = "start"
  /\ sys' = [sys EXCEPT !.running = TRUE, !.pc = "check"]
  /\ UNCHANGED << alive, workers, ctl, ret, active_pids, log, obs, perf_ub, hist, sock,
               meter, insn,
                  csv, lister, launcher, pcm >>

\* SystemStatsWorker, line 183
SystemStatsWorkerCheck ==
  /\ sys.pc = "check"
  /\ sys' = [sys EXCEPT !.pc = IF sys.running THEN "body" ELSE "done"]
  /\ UNCHANGED << alive, workers, ctl, ret, active_pids, log, obs, perf_ub, hist, sock,
               meter, insn,
                  csv, lister, launcher, pcm >>

\* SystemStatsWorker, lines 184-190
SystemStatsWorkerBody ==
  /\ sys.pc = "body"
  /\ sys' = [sys EXCEPT !.pc = "check"]
  /\ UNCHANGED << alive, workers, ctl, ret, active_pids, log, obs, perf_ub, hist, sock,
               meter, insn,
                  csv, lister, launcher, pcm >>

(* ------------------------------ environment ---------------------------- *)
\* a monitored process exits
ProcessExit(p) ==
  /\ p \in alive
  /\ alive' = alive \ {p}
  /\ UNCHANGED << workers, sys, ctl, ret, active_pids, log, obs, perf_ub, hist, sock,
               meter, insn,
                  csv, lister, launcher, pcm >>

\* the sample budgets and perf switches a start request for pid is tried
\* with: a start that fails before it reads them is tried with one value
StartSamples(pid, max) ==
  IF pid = 0 \/ workers[pid].registered THEN {0} ELSE 0..max

StartPerf(pid) ==
  IF pid = 0 \/ workers[pid].registered THEN {FALSE} ELSE BOOLEAN

\* a start request for pid
StartWorkerRequest(pid) ==
  \E samples \in StartSamples(pid, MaxStart), enable_perf \in StartPerf(pid) :
    StartWorkerThread(pid, samples, enable_perf)

Next ==
  \/ \E pid \in AllPids : StartWorkerRequest(pid)
  \/ \E pid \in AllPids : CheckWorkerThread(pid)
  \/ \E pid \in AllPids : StopWorkerThread(pid)
  \/ JoinWorkerThread
  \/ \E p \in Pids : ProcStatsWorkerBegin(p)
  \/ \E p \in Pids : ProcStatsWorkerCheck(p)
  \/ \E p \in Pids : ProcStatsWorkerBody(p)
  \/ \E p \in Pids : ProcessExit(p)

Spec == Init /\ [][Next]_vars

\* the scheduler runs every started thread, and a join returns once its
\* thread has ended
Fairness ==
  /\ \A p \in Pids : WF_vars(ProcStatsWorkerBegin(p))
  /\ \A p \in Pids : WF_vars(ProcStatsWorkerCheck(p))
  /\ \A p \in Pids : WF_vars(ProcStatsWorkerBody(p))
  /\ WF_vars(JoinWorkerThread)

FairSpec == Spec /\ Fairness

(* ---------------------- one worker, its loop counted ------------------- *)
\* the pid whose worker SpecWorker drives
OnePid == CHOOSE p \in Pids : \A q \in Pids : p <= q

\* the counters saturate two above the budget
TickCap(h) == h.budget + 2

\* the iteration calls LogReadings for every tick but the first
LogsRow_NoSkip(w, refresh) == refresh = "OK"

\* ProcStatsWorker, lines 147-151: the iteration calls LogReadings
LogsRow(w, refresh) == refresh = "OK" /\ ~w.first_sample

\* hist after one iteration of the loop of the worker w
Counted(h, w, refresh) ==
  [h EXCEPT !.ticks = Min(@ + 1, TickCap(h)),
            !.rows = IF LogsRow(w, refresh) THEN Min(@ + 1, TickCap(h)) ELSE @]

\* ProcStatsWorkerBegin, recording the budget the thread starts with
ProcStatsWorkerBeginCounted(p) ==
  /\ ProcStatsWorkerBeginStep(p)
  /\ hist' = [hist EXCEPT ![p] = [NoHist EXCEPT !.budget = workers[p].samples]]

\* ProcStatsWorkerBody, counting the tick and the row of the iteration
ProcStatsWorkerBodyCounted(p) ==
  \E perf_ok \in BOOLEAN :
    /\ ProcStatsWorkerBodyStep(p, perf_ok)
    /\ hist' = [hist EXCEPT
         ![p] = Counted(@, workers[p], RefreshProcStat(workers[p], p, perf_ok))]

\* a start request for the one pid, with every budget up to MaxSamples
StartWorkerCounted(pid) ==
  \E samples \in StartSamples(pid, MaxSamples), enable_perf \in StartPerf(pid) :
    StartWorkerThread(pid, samples, enable_perf)

NextWorker ==
  \/ StartWorkerCounted(OnePid)
  \/ CheckWorkerThread(OnePid)
  \/ StopWorkerThread(OnePid)
  \/ JoinWorkerThread
  \/ ProcStatsWorkerBeginCounted(OnePid)
  \/ ProcStatsWorkerCheck(OnePid)
  \/ ProcStatsWorkerBodyCounted(OnePid)
  \/ ProcessExit(OnePid)

SpecWorker == Init /\ [][NextWorker]_vars

(* --------------------------- main() of the daemon ---------------------- *)
\* Status::what() of the Status a system operation returns
What(code) ==
  IF code = "RESOURCE_BUSY" THEN "The thread has already started"
  ELSE IF code = "NOT_FOUND" THEN "The thread was not running"
  ELSE ""

\* socket.send of line 404, kept for the first MaxLog system requests
Send(state, status) ==
  IF Len(log) < MaxLog
  THEN Append(log, [state |-> state, code |-> CodeOf(status.code),
                    result |-> What(status.code)])
  ELSE log

InitMain ==
  /\ alive = Pids
  /\ workers = [p \in AllPids |-> NoWorker]
  /\ sys = [thread |-> FALSE, running |-> FALSE, pc |-> "none", nthreads |-> 0]
  /\ ctl = [pc |-> "boot", pid |-> 0, state |-> FALSE]
  /\ ret = NoRet
  /\ active_pids = << >>
  /\ log = << >>
  /\ obs = [o \in ObsIds |-> NoObserver]
  /\ perf_ub = FALSE
  /\ hist = [p \in Pids |-> NoHist]
  /\ sock = NoSock
  /\ meter = NoMeter
  /\ insn = NoInsn
  /\ csv = NoCsv
  /\ lister = NoLister
  /\ launcher = NoLauncher
  /\ pcm = NoPcm

\* main without the StartSystemThread call of line 338
MainBoot_NoStart ==
  /\ ctl.pc = "boot"
  /\ ctl' = [pc |-> "recv", pid |-> 0, state |-> FALSE]
  /\ UNCHANGED << alive, workers, sys, ret, active_pids, log, obs, perf_ub, hist, sock,
               meter, insn,
                  csv, lister, launcher, pcm >>

\* main, lines 337-338: the analyser is built and the collector started
MainBoot ==
  /\ ctl.pc = "boot"
  /\ StartSystemThread
  /\ ctl' = [pc |-> "recv", pid |-> 0, state |-> FALSE]
  /\ UNCHANGED << alive, workers, active_pids, log, obs, perf_ub, hist, sock,
               meter, insn,
                  csv, lister, launcher, pcm >>

\* main, lines 351-379 and 400-404 for {"transaction":"system","state":true}
MainSystemStart ==
  /\ ctl.pc = "recv"
  /\ StartSystemThread
  /\ log' = Send(TRUE, ret')
  /\ UNCHANGED << alive, workers, ctl, active_pids, obs, perf_ub, hist, sock,
               meter, insn,
                  csv, lister, launcher, pcm >>

\* main, the same lines for {"transaction":"system","state":false}
MainSystemStop ==
  /\ ctl.pc = "recv"
  /\ StopSystemThread
  /\ log' = IF ctl'.pc = "recv" THEN Send(FALSE, ret') ELSE log
  /\ UNCHANGED << alive, workers, active_pids, obs, perf_ub, hist, sock,
               meter, insn,
                  csv, lister, launcher, pcm >>

\* main: the join of StopSystemThread returns and the reply is sent
MainSystemStopJoined ==
  /\ ctl.pc = "join_sys"
  /\ StopSystemThreadJoined
  /\ ctl' = [pc |-> "recv", pid |-> 0, state |-> FALSE]
  /\ log' = Send(FALSE, ret')
  /\ UNCHANGED << alive, workers, active_pids, obs, perf_ub, hist, sock,
               meter, insn,
                  csv, lister, launcher, pcm >>

NextMain ==
  \/ MainBoot
  \/ MainSystemStart
  \/ MainSystemStop
  \/ MainSystemStopJoined
  \/ SystemStatsWorkerBegin
  \/ SystemStatsWorkerCheck
  \/ SystemStatsWorkerBody

SpecMain == InitMain /\ [][NextMain]_vars

(* ------------------- the request loop of the daemon -------------------- *)
\* one socket.send: the result member of the reply and the kind of the
\* Status it was built from ("none" when main built it from no Status)
Reply(result, code) == [result |-> result, code |-> code]

\* daemon.cpp EfimonWorker::Start of the worker main registered for pid
DaemonWorkerStart(pid) == IF pid = 0 THEN "CANNOT_OPEN" ELSE "OK"

\* daemon.cpp EfimonAnalyser::StartWorkerThread: the Status kind
DaemonStartWorker(pid) ==
  IF workers[pid].registered THEN "RESOURCE_BUSY" ELSE DaemonWorkerStart(pid)

\* daemon.cpp EfimonAnalyser::StopWorkerThread: the Status kind
DaemonStopWorker(pid) ==
  IF workers[pid].registered THEN "OK" ELSE "NOT_FOUND"

\* Status::what() of the Status main replies from
DaemonWhat(op, code) ==
  IF code = "INVALID_PARAMETER" THEN "Invalid set of params"
  ELSE IF code = "OK" THEN ""
  ELSE IF code = "CANNOT_OPEN" THEN "Invalid instance of the worker"
  ELSE IF op = "start" THEN "The monitor has already started for the given PID"
  ELSE "No monitor linked to the given PID"

\* socket.receive returned the request req: the replies start afresh
Received(req, pid) ==
  [sock EXCEPT !.req = req, !.pid = pid, !.recvs = @ + 1, !.replies = << >>]

\* socket.send of one reply on the socket s
Sent(s, reply) ==
  [s EXCEPT !.sends = @ + 1, !.replies = Append(@, reply)]

\* main is at socket.receive and the client sends a request
AtReceive == sock.up /\ sock.recvs < MaxRequests

\* main, lines 355-358: the text received is not JSON
MainGarbage ==
  /\ AtReceive
  /\ sock' = Sent(Received("garbage", 0), Reply("Cannot parse", "none"))
  /\ UNCHANGED << alive, workers, sys, ctl, ret, active_pids, log, obs,
                  perf_ub, hist, meter, insn,
                  csv, lister, launcher, pcm >>

\* main, lines 362-366 and then 367-404: the object has no transaction
\* member; a reply is sent, and the handler goes on to the final send of the
\* iteration, which the reply socket refuses because no request is pending:
\* the call throws out of main or fails without sending
MainNoTransaction ==
  /\ AtReceive
  /\ \E throws \in BOOLEAN :
       sock' = [Sent(Sent(Received("no_transaction", 0),
                          Reply("Cannot find transaction", "none")),
                     Reply(DaemonWhat("none", "INVALID_PARAMETER"),
                           "INVALID_PARAMETER"))
                EXCEPT !.up = ~throws]
  /\ UNCHANGED << alive, workers, sys, ctl, ret, active_pids, log, obs,
                  perf_ub, hist, meter, insn,
                  csv, lister, launcher, pcm >>

\* main, lines 372-404 for a request that matches neither branch: an unknown
\* transaction, a known one without a required member, or a poll
MainInvalid(req, pid) ==
  /\ AtReceive
  /\ sock' = Sent(Received(req, pid),
                  Reply(DaemonWhat("none", "INVALID_PARAMETER"),
                        "INVALID_PARAMETER"))
  /\ UNCHANGED << alive, workers, sys, ctl, ret, active_pids, log, obs,
                  perf_ub, hist, meter, insn,
                  csv, lister, launcher, pcm >>

\* main, lines 380-396 and 400-404 for a process request with state true
MainProcessStart(pid) ==
  /\ AtReceive
  /\ workers' = IF workers[pid].registered THEN workers
                ELSE [workers EXCEPT ![pid] = NewWorker]
  /\ sock' = Sent(Received("process_start", pid),
                  Reply(DaemonWhat("start", DaemonStartWorker(pid)),
                        DaemonStartWorker(pid)))
  /\ UNCHANGED << alive, sys, ctl, ret, active_pids, log, obs, perf_ub, hist, meter, insn,
                  csv, lister, launcher, pcm >>

\* main, the same lines for a process request with state false
MainProcessStop(pid) ==
  /\ AtReceive
  /\ workers' = [workers EXCEPT ![pid] = NoWorker]
  /\ sock' = Sent(Received("process_stop", pid),
                  Reply(DaemonWhat("stop", DaemonStopWorker(pid)),
                        DaemonStopWorker(pid)))
  /\ UNCHANGED << alive, sys, ctl, ret, active_pids, log, obs, perf_ub, hist, meter, insn,
                  csv, lister, launcher, pcm >>

NextLoop ==
  \/ MainGarbage
  \/ MainNoTransaction
  \/ \E req \in {"unknown", "missing_field"} : MainInvalid(req, 0)
  \/ \E pid \in AllPids : MainInvalid("poll", pid)
  \/ \E pid \in AllPids : MainProcessStart(pid)
  \/ \E pid \in AllPids : MainProcessStop(pid)

SpecLoop == Init /\ [][NextLoop]_vars

(* ------------------------- launcher, poll step ------------------------- *)
\* the largest value the launcher is handed as a decimal Status code
MaxDecimal == 20

\* std::all_of(value, isdigit): every character is a digit (none for "")
IsNumeric(value) ==
  value = "" \/ \E n \in 0..MaxDecimal : ToString(n) = value

\* std::stoi of a non-empty string of digits
StoI(value) == CHOOSE n \in 0..MaxDecimal : ToString(n) = value

\* check_monitor from the reply on: the code of the Status it returns;
\* stoi throws on the empty string
CheckMonitor(value) ==
  IF ~IsNumeric(value)
  THEN [code |-> CodeOf("INVALID_PARAMETER"), thrown |-> FALSE]
  ELSE IF value = "" THEN [code |-> 0, thrown |-> TRUE]
  ELSE [code |-> StoI(value), thrown |-> FALSE]

(* ------------------------ perf-record observers ------------------------ *)
\* some other live observer has pid as its pid_
HeldByOther(o, pid) ==
  \E o2 \in ObsIds \ {o} : obs[o2].live /\ obs[o2].pid = pid

InitPerf ==
  /\ alive = 1..MaxPerfPid
  /\ workers = [p \in AllPids |-> NoWorker]
  /\ sys = [thread |-> FALSE, running |-> FALSE, pc |-> "none", nthreads |-> 0]
  /\ ctl = [pc |-> "recv", pid |-> 0, state |-> FALSE]
  /\ ret = NoRet
  /\ active_pids = << >>
  /\ log = << >>
  /\ obs = [o \in ObsIds |-> NoObserver]
  /\ perf_ub = FALSE
  /\ hist = [p \in Pids |-> NoHist]
  /\ sock = NoSock
  /\ meter = NoMeter
  /\ insn = NoInsn
  /\ csv = NoCsv
  /\ lister = NoLister
  /\ launcher = NoLauncher
  /\ pcm = NoPcm

\* PerfRecordObserver::PerfRecordObserver(pid, PROCESS, ...)
PerfRecordObserverCtor(o, pid) ==
  /\ ~obs[o].live
  /\ IF pid = 0
     THEN /\ obs' = [obs EXCEPT ![o] = [NoObserver EXCEPT !.live = TRUE]]
          /\ ret' = Ret("ctor", pid, "OK", HeldByOther(o, pid))
          /\ UNCHANGED active_pids
     ELSE IF PerfRecordCtorCode(pid) # "OK"
          THEN /\ ret' = Thrown("ctor", pid, PerfRecordCtorCode(pid), HeldByOther(o, pid))
               /\ UNCHANGED << obs, active_pids >>
          ELSE /\ active_pids' = Append(active_pids, pid)
               /\ obs' = [obs EXCEPT ![o] = [live |-> TRUE, pid |-> pid, cmd_pid |-> pid,
                                             tmp_pid |-> pid, valid |-> FALSE]]
               /\ ret' = Ret("ctor", pid, "OK", HeldByOther(o, pid))
  /\ UNCHANGED << alive, workers, sys, ctl, log, perf_ub, hist, sock,
               meter, insn,
                  csv, lister, launcher, pcm >>

\* AfterErase with the erase left out: the old pid stays registered
AfterErase_KeepsOld(tmp_pid) == {active_pids}

\* the vectors active_pids_.erase(oit) of SetPID can leave behind: the entry
\* removed when oit is valid; for oit = end() the call is undefined, and the
\* builds either leave the vector alone or drop its last element
AfterErase(tmp_pid) ==
  IF tmp_pid = 0 THEN {active_pids}
  ELSE IF Find(active_pids, tmp_pid) # 0
       THEN {EraseAt(active_pids, Find(active_pids, tmp_pid))}
       ELSE {active_pids} \cup
            (IF Len(active_pids) > 0
             THEN {SubSeq(active_pids, 1, Len(active_pids) - 1)} ELSE {})

\* the registration the find / erase of SetPID takes out: tmp_pid when it is
\* in active_pids_, none otherwise
Erased(tmp_pid) == IF Find(active_pids, tmp_pid) # 0 THEN tmp_pid ELSE 0

\* PerfRecordObserver::SetPID
SetPID(o, pid) ==
  /\ obs[o].live
  /\ IF ~CheckAlive(pid)
     THEN /\ obs' = [obs EXCEPT ![o].valid = FALSE]
          /\ ret' = Ret("set_pid", pid, "NOT_FOUND", HeldByOther(o, pid))
          /\ UNCHANGED << active_pids, perf_ub >>
     ELSE \E erased \in AfterErase(obs[o].pid) :
            /\ perf_ub' = (perf_ub \/ (obs[o].pid # 0 /\ Find(active_pids, obs[o].pid) = 0))
            /\ IF Find(erased, pid) # 0
               THEN /\ active_pids' = erased
                    /\ obs' = [obs EXCEPT ![o].pid = pid, ![o].valid = FALSE]
                    /\ ret' = [Ret("set_pid", pid, "RESOURCE_BUSY", HeldByOther(o, pid))
                                 EXCEPT !.erased = Erased(obs[o].pid)]
               ELSE /\ active_pids' = Append(erased, pid)
                    /\ obs' = [obs EXCEPT ![o].pid = pid, ![o].cmd_pid = pid,
                                          ![o].tmp_pid = pid]
                    /\ ret' = [Ret("set_pid", pid, "OK", HeldByOther(o, pid))
                                 EXCEPT !.erased = Erased(obs[o].pid)]
  /\ UNCHANGED << alive, workers, sys, ctl, log, hist, sock,
               meter, insn,
                  csv, lister, launcher, pcm >>

\* PerfRecordObserver::Trigger
Trigger(o) ==
  /\ obs[o].live
  /\ IF obs[o].pid = 0
     THEN /\ ret' = Ret("trigger", obs[o].pid, "NOT_READY", FALSE)
          /\ UNCHANGED obs
     ELSE IF ~CheckAlive(obs[o].pid)
          THEN /\ ret' = Ret("trigger", obs[o].pid, "NOT_FOUND", FALSE)
               /\ UNCHANGED obs
          ELSE /\ obs' = [obs EXCEPT ![o].valid = TRUE]
               /\ ret' = Ret("trigger", obs[o].pid, "OK", FALSE)
  /\ UNCHANGED << alive, workers, sys, ctl, active_pids, log, perf_ub, hist, sock,
               meter, insn,
                  csv, lister, launcher, pcm >>

\* PerfRecordObserver::~PerfRecordObserver
PerfRecordObserverDtor(o) ==
  /\ obs[o].live
  /\ obs' = [obs EXCEPT ![o] = NoObserver]
  /\ ret' = Ret("drop", obs[o].pid, "OK", HeldByOther(o, obs[o].pid))
  /\ UNCHANGED << alive, workers, sys, ctl, active_pids, log, perf_ub, hist, sock,
               meter, insn,
                  csv, lister, launcher, pcm >>

NextPerf ==
  \/ \E o \in ObsIds, pid \in PerfPids : PerfRecordObserverCtor(o, pid)
  \/ \E o \in ObsIds, pid \in PerfPids : SetPID(o, pid)
  \/ \E o \in ObsIds : Trigger(o)
  \/ \E o \in ObsIds : PerfRecordObserverDtor(o)
  \/ \E p \in 1..MaxPerfPid : ProcessExit(p)

SpecPerf == InitPerf /\ [][NextPerf]_vars

\* the observers whose pid is moved with SetPID: constructed, re-targeted
\* and dropped while processes exit (no sampling)
Movers == 1..MaxMovers

NextMove ==
  \/ \E o \in Movers, pid \in PerfPids : PerfRecordObserverCtor(o, pid)
  \/ \E o \in Movers, pid \in PerfPids : SetPID(o, pid)
  \/ \E o \in Movers : PerfRecordObserverDtor(o)
  \/ \E p \in 1..MaxPerfPid : ProcessExit(p)

SpecMove == InitPerf /\ [][NextMove]_vars

(* ------------------------- ProcStat observer --------------------------- *)
\* largest value of /proc/uptime (in readings units) the meters see
MaxClock == 4

\* ProcStatObserver(pid, PROCESS, interval): the members after Reset(); clock
\* is /proc/uptime, triggers counts the triggers that returned OK (up to 2),
\* t1 and t2 are the uptimes of the last two of them
StatObserverCtor(clock) ==
  [kind |-> "stat", status_ |-> "OK", uptime_ |-> 0,
   timestamp |-> 0, difference |-> 0, overall_usage |-> 0,
   clock |-> clock, triggers |-> 0, ret |-> "none",
   t1 |-> 0, t2 |-> 0]

InitStat ==
  /\ alive = Pids
  /\ workers = [p \in AllPids |-> NoWorker]
  /\ sys = [thread |-> FALSE, running |-> FALSE, pc |-> "none", nthreads |-> 0]
  /\ ctl = [pc |-> "recv", pid |-> 0, state |-> FALSE]
  /\ ret = NoRet
  /\ active_pids = << >>
  /\ log = << >>
  /\ obs = [o \in ObsIds |-> NoObserver]
  /\ perf_ub = FALSE
  /\ hist = [p \in Pids |-> NoHist]
  /\ sock = NoSock
  /\ \E clock \in 1..2 : meter = StatObserverCtor(clock)
  /\ insn = NoInsn
  /\ csv = NoCsv
  /\ lister = NoLister
  /\ launcher = NoLauncher
  /\ pcm = NoPcm

\* /proc/uptime grows
ClockTick ==
  /\ meter.kind # "none"
  /\ meter.clock < MaxClock
  /\ meter' = [meter EXCEPT !.clock = meter.clock + 1]
  /\ UNCHANGED << alive, workers, sys, ctl, ret, active_pids, log, obs,
                  perf_ub, hist, sock, insn,
                  csv, lister, launcher, pcm >>

\* the field state of /proc/<pid>/stat: PROC_STATE_RUNNING, _ZOMBIE,
\* _STOPPED, _DEAD
ProcStates == {"R", "Z", "T", "X"}

\* TranslateReadings: timestamp and difference first, the usage only for a
\* process that is neither stopped ('T') nor dead ('X')
TranslateReadings(m, state, usage) ==
  [m EXCEPT
     !.difference = m.clock - m.timestamp,
     !.timestamp = m.clock,
     !.overall_usage = IF state \in {"T", "X"} THEN m.overall_usage ELSE usage]

\* ProcStatObserver::Trigger for a process observer; exits: the process goes
\* away between CheckAlive and GetProcStat, whose fopen then fails
StatTrigger(exits, state, usage) ==
  /\ meter.kind = "stat"
  /\ IF ~CheckAlive(OnePid)
     THEN /\ meter' = [meter EXCEPT !.status_ = "NOT_FOUND",
                                    !.ret = "NOT_FOUND"]
          /\ UNCHANGED alive
     ELSE /\ meter' =
               [TranslateReadings([meter EXCEPT !.uptime_ = meter.clock],
                                  state, usage)
                  EXCEPT !.status_ = IF exits THEN "NOT_FOUND" ELSE "OK",
                         !.ret = "OK",
                         !.triggers = Min(meter.triggers + 1, 2),
                         !.t1 = meter.t2,
                         !.t2 = meter.clock]
          /\ alive' = IF exits THEN alive \ {OnePid} ELSE alive
  /\ UNCHANGED << workers, sys, ctl, ret, active_pids, log, obs, perf_ub,
                  hist, sock, insn,
                  csv, lister, launcher, pcm >>

\* the observed process exits between two triggers
StatProcessExit ==
  /\ meter.kind = "stat"
  /\ ProcessExit(OnePid)

NextStat ==
  \/ ClockTick
  \/ \E exits \in BOOLEAN, state \in ProcStates, usage \in 0..1 :
       StatTrigger(exits, state, usage)
  \/ StatProcessExit

SpecStat == InitStat /\ [][NextStat]_vars

(* --------------------------- IPMI observer ----------------------------- *)
\* largest number of PSUs GetInfo finds
MaxPsu == 2
\* largest instantaneous power (W) a PSU reports
MaxPower == 2

\* GetPower found no "Instantaneous Power" line
NoRead == 0

\* readings_ as GetReadings hands it out; energies are kept in units of
\* 10^-3 J, so that power * difference * 1e-3 J is power * difference
IpmiReadings(m) ==
  [timestamp |-> m.timestamp, difference |-> m.difference,
   overall_power |-> m.overall_power, overall_energy |-> m.overall_energy,
   psu_power |-> m.psu_power, psu_energy |-> m.psu_energy]

\* IPMIMeterObserver::Reset
IpmiReset(m) ==
  [m EXCEPT !.timestamp = 0, !.difference = 0,
            !.overall_power = 0, !.overall_energy = 0,
            !.psu_power = [i \in 0..(m.num_psus_ - 1) |-> 0],
            !.psu_energy = [i \in 0..(m.num_psus_ - 1) |-> 0]]

\* IPMIMeterObserver::GetPower(psu_id): the readings and the Status code
GetPower(m, psu_id, read) ==
  IF read = NoRead
  THEN [m EXCEPT !.st = "NOT_FOUND"]
  ELSE [m EXCEPT !.psu_power[psu_id] = read,
                 !.overall_power = m.overall_power + read,
                 !.read[psu_id] = TRUE,
                 !.st = "OK"]

\* IPMIMeterObserver::ParseResults(psu_id)
IpmiParseResults(m, psu_id) ==
  IF ~m.valid_ THEN m
  ELSE LET energy == m.psu_power[psu_id] * m.difference
       IN [m EXCEPT !.overall_energy = m.overall_energy + energy,
                    !.psu_energy[psu_id] = m.psu_energy[psu_id] + energy]

\* the for loop of Trigger from PSU i on
RECURSIVE IpmiAllPsus(_, _, _)
IpmiAllPsus(m, i, reads) ==
  IF i >= m.num_psus_ THEN m
  ELSE IpmiAllPsus(IpmiParseResults(GetPower(m, i, reads[i]), i), i + 1, reads)

\* IPMIMeterObserver::Trigger: the members at its return; st is the Status
\* it returns, read[i] tells whether GetPower read PSU i in this call
IpmiTriggerBody(m0, fan_ok, reads) ==
  LET m == [m0 EXCEPT !.difference = m0.clock - m0.timestamp,
                      !.timestamp = m0.clock,
                      !.overall_power = 0,
                      !.read = [i \in 0..(m0.num_psus_ - 1) |-> FALSE],
                      !.st = "OK"]
  IN IF ~fan_ok THEN [m EXCEPT !.st = "NOT_FOUND"]
     ELSE IF m.psu_id_ < m.num_psus_
     THEN [IpmiParseResults(GetPower(m, m.psu_id_, reads[m.psu_id_]), m.psu_id_)
             EXCEPT !.valid_ = TRUE]
     ELSE [IpmiAllPsus(m, 0, reads) EXCEPT !.valid_ = TRUE]

\* the running sum of power read * difference of PSU i after the trigger
\* that left the members m
SumAfter(sum, m) ==
  [i \in DOMAIN sum |->
     IF m.read[i] THEN sum[i] + m.psu_power[i] * m.difference ELSE sum[i]]

\* IPMIMeterObserver(pid, SYSTEM, interval) on a host with n PSUs: GetInfo,
\* Reset, Trigger and then valid_ = false; psu_id_ keeps kMaxPSU, here any
\* value from num_psus_ on
IpmiObserverCtor(n, clock, reads) ==
  LET blank == [kind |-> "ipmi", valid_ |-> FALSE, psu_id_ |-> MaxPsu,
                num_psus_ |-> n, timestamp |-> 0, difference |-> 0,
                overall_power |-> 0, overall_energy |-> 0,
                psu_power |-> [i \in 0..(n - 1) |-> 0],
                psu_energy |-> [i \in 0..(n - 1) |-> 0],
                clock |-> clock, st |-> "OK",
                read |-> [i \in 0..(n - 1) |-> FALSE],
                ret |-> "none",
                sum |-> [i \in 0..(n - 1) |-> 0]]
  IN [IpmiTriggerBody(IpmiReset(blank), TRUE, reads) EXCEPT !.valid_ = FALSE]

InitIpmi ==
  /\ alive = Pids
  /\ workers = [p \in AllPids |-> NoWorker]
  /\ sys = [thread |-> FALSE, running |-> FALSE, pc |-> "none", nthreads |-> 0]
  /\ ctl = [pc |-> "recv", pid |-> 0, state |-> FALSE]
  /\ ret = NoRet
  /\ active_pids = << >>
  /\ log = << >>
  /\ obs = [o \in ObsIds |-> NoObserver]
  /\ perf_ub = FALSE
  /\ hist = [p \in Pids |-> NoHist]
  /\ sock = NoSock
  /\ \E n \in 1..MaxPsu, reads \in [0..(MaxPsu - 1) -> 1..MaxPower] :
       meter = IpmiObserverCtor(n, 1, reads)
  /\ insn = NoInsn
  /\ csv = NoCsv
  /\ lister = NoLister
  /\ launcher = NoLauncher
  /\ pcm = NoPcm

\* a Trigger() call of the user of the observer
IpmiTrigger(fan_ok, reads) ==
  /\ meter.kind = "ipmi"
  /\ LET m == IpmiTriggerBody(meter, fan_ok, reads)
     IN meter' = [m EXCEPT !.ret = m.st,
                           !.sum = SumAfter(meter.sum, m)]
  /\ UNCHANGED << alive, workers, sys, ctl, ret, active_pids, log, obs,
                  perf_ub, hist, sock, insn,
                  csv, lister, launcher, pcm >>

\* IPMIMeterObserver::SelectDevice
IpmiSelectDevice(device) ==
  /\ meter.kind = "ipmi"
  /\ meter.psu_id_ # device
  /\ meter' = [meter EXCEPT !.psu_id_ = device]
  /\ UNCHANGED << alive, workers, sys, ctl, ret, active_pids, log, obs,
                  perf_ub, hist, sock, insn,
                  csv, lister, launcher, pcm >>

NextIpmi ==
  \/ ClockTick
  \/ \E fan_ok \in BOOLEAN, reads \in [0..(MaxPsu - 1) -> 0..MaxPower] :
       IpmiTrigger(fan_ok, reads)
  \/ \E device \in 0..MaxPsu : IpmiSelectDevice(device)

SpecIpmi == InitIpmi /\ [][NextIpmi]_vars

(* ------------------------- powercap observer --------------------------- *)
\* largest number of sockets of the host
MaxSockets == 2
\* largest value (J) an energy counter reaches
MaxEnergy == 3

\* energy_uj holds micro joules
MicroJoules == 1000000

\* std::stof(payload_uj) * 1e-06 for a counter at a whole number of joules
JoulesOf(payload_uj) == payload_uj \div MicroJoules

\* both vectors exchanged, as std::swap does
SwapMeters(m) ==
  [m EXCEPT !.before_socket_meters_ = m.after_socket_meters_,
            !.after_socket_meters_ = m.before_socket_meters_]

\* RAPLMeterObserver::GetSocketConsumption(socket_id), the file being there
GetSocketConsumption(m, socket_id, payload_uj) ==
  IF ~m.valid_
  THEN [m EXCEPT !.before_socket_meters_[socket_id] = JoulesOf(payload_uj),
                 !.after_socket_meters_[socket_id] = JoulesOf(payload_uj)]
  ELSE [SwapMeters(m) EXCEPT
          !.after_socket_meters_[socket_id] = JoulesOf(payload_uj)]

\* RAPLMeterObserver::ParseResults(socket_id)
RaplParseResults(m, socket_id) ==
  LET val == m.after_socket_meters_[socket_id]
               - m.before_socket_meters_[socket_id]
  IN [m EXCEPT !.socket_power[socket_id] = val,
               !.overall_power = m.overall_power + val]

\* the for loop of Trigger from socket i on
RECURSIVE RaplAllSockets(_, _, _)
RaplAllSockets(m, i, files) ==
  IF i >= m.num_sockets THEN m
  ELSE RaplAllSockets(
         RaplParseResults(GetSocketConsumption(m, i, files[i]), i),
         i + 1, files)

\* the sockets a Trigger scans
Scanned(m) ==
  IF m.device_ < m.num_sockets THEN {m.device_} ELSE 0..(m.num_sockets - 1)

\* RAPLMeterObserver::Trigger: the members at its return
RaplTriggerBody(m0, files) ==
  LET m == [m0 EXCEPT !.difference = m0.clock - m0.timestamp,
                      !.timestamp = m0.clock,
                      !.overall_power = 0]
  IN IF m.device_ < m.num_sockets
     THEN [RaplParseResults(
             GetSocketConsumption(m, m.device_, files[m.device_]), m.device_)
             EXCEPT !.valid_ = TRUE]
     ELSE [RaplAllSockets(m, 0, files) EXCEPT !.valid_ = TRUE]

\* the counters as a trigger found them: J2 at this trigger, J1 at the one
\* before, for the sockets this trigger scanned; both[s] tells that the last
\* two triggers both scanned s
Noted(m0, m, files) ==
  [m EXCEPT
     !.J1 = [s \in DOMAIN m0.J2 |-> IF s \in Scanned(m0) THEN m0.J2[s] ELSE @[s]],
     !.J2 = [s \in DOMAIN m0.J2 |->
               IF s \in Scanned(m0) THEN JoulesOf(files[s]) ELSE @[s]],
     !.both = [s \in DOMAIN m0.J2 |-> s \in Scanned(m0) /\ m0.last[s]],
     !.last = [s \in DOMAIN m0.J2 |-> s \in Scanned(m0)]]

\* RAPLMeterObserver(pid, SYSTEM, interval) on a host with n sockets: Reset
\* and Trigger, device_ being the number of sockets
RaplObserverCtor(n, clock, files) ==
  LET zeros == [s \in 0..(n - 1) |-> 0]
      blank == [kind |-> "rapl", valid_ |-> FALSE, device_ |-> n,
                num_sockets |-> n, timestamp |-> 0, difference |-> 0,
                overall_power |-> 0, socket_power |-> zeros,
                before_socket_meters_ |-> zeros,
                after_socket_meters_ |-> zeros,
                clock |-> clock, ret |-> "none", triggers |-> 0,
                J1 |-> zeros, J2 |-> zeros,
                both |-> [s \in 0..(n - 1) |-> FALSE],
                last |-> [s \in 0..(n - 1) |-> FALSE]]
  IN Noted(blank, RaplTriggerBody(blank, files), files)

\* the contents of energy_uj of each socket at a whole number of joules,
\* none below the counter as it was last read
Files(m) ==
  {f \in [0..(m.num_sockets - 1) -> {j * MicroJoules : j \in 0..MaxEnergy}] :
     \A s \in 0..(m.num_sockets - 1) : JoulesOf(f[s]) >= m.J2[s]}

InitRapl ==
  /\ alive = Pids
  /\ workers = [p \in AllPids |-> NoWorker]
  /\ sys = [thread |-> FALSE, running |-> FALSE, pc |-> "none", nthreads |-> 0]
  /\ ctl = [pc |-> "recv", pid |-> 0, state |-> FALSE]
  /\ ret = NoRet
  /\ active_pids = << >>
  /\ log = << >>
  /\ obs = [o \in ObsIds |-> NoObserver]
  /\ perf_ub = FALSE
  /\ hist = [p \in Pids |-> NoHist]
  /\ sock = NoSock
  /\ \E n \in 1..MaxSockets :
       \E files \in [0..(n - 1) -> {j * MicroJoules : j \in 0..1}] :
         meter = RaplObserverCtor(n, 1, files)
  /\ insn = NoInsn
  /\ csv = NoCsv
  /\ lister = NoLister
  /\ launcher = NoLauncher
  /\ pcm = NoPcm

\* a Trigger() call of the user of the observer
RaplTrigger(files) ==
  /\ meter.kind = "rapl"
  /\ meter' = [Noted(meter, RaplTriggerBody(meter, files), files)
                 EXCEPT !.ret = "OK",
                        !.triggers = Min(meter.triggers + 1, 2)]
  /\ UNCHANGED << alive, workers, sys, ctl, ret, active_pids, log, obs,
                  perf_ub, hist, sock, insn,
                  csv, lister, launcher, pcm >>

\* RAPLMeterObserver::SelectDevice
RaplSelectDevice(device) ==
  /\ meter.kind = "rapl"
  /\ meter.device_ # device
  /\ meter' = [meter EXCEPT !.device_ = device]
  /\ UNCHANGED << alive, workers, sys, ctl, ret, active_pids, log, obs,
                  perf_ub, hist, sock, insn,
                  csv, lister, launcher, pcm >>

NextRapl ==
  \/ ClockTick
  \/ \E files \in Files(meter) : RaplTrigger(files)
  \/ \E device \in 0..MaxSockets : RaplSelectDevice(device)

SpecRapl == InitRapl /\ [][NextRapl]_vars

(* ------------------------- assembly classifier ------------------------- *)
\* std::string values are sequences of one-character strings here

\* std::string::find(c): the first position (from 1) where c starts, 0 for npos
StrFind(s, c) ==
  LET hits == {i \in 1..(Len(s) - Len(c) + 1) : SubSeq(s, i, i + Len(c) - 1) = c}
  IN IF hits = {} THEN 0 ELSE CHOOSE i \in hits : \A j \in hits : i <= j

\* the predicate pred of Classify over one table: some entry is found in inst
AnyFound(inst, table) == \E c \in table : StrFind(inst, c) # 0

\* x86Classifier::Classify, kArithOp
kArithOp ==
  {<<"a", "d", "d">>, <<"s", "u", "b">>, <<"d", "i", "v">>,
   <<"m", "u", "l">>, <<"d", "p">>, <<"a", "b", "s">>,
   <<"s", "i", "g", "n">>, <<"a", "v", "g">>, <<"d", "e", "c">>,
   <<"i", "n", "c">>, <<"n", "e", "g">>}

\* kBitManOp
kBitManOp ==
  {<<"s", "h", "u", "f">>, <<"l", "z", "c", "n">>, <<"c", "v", "t">>,
   <<"b", "l", "e", "n", "d">>, <<"p", "e", "r", "m">>,
   <<"e", "x", "t", "r", "a", "c", "t">>,
   <<"c", "o", "m", "p", "r", "e", "s", "s">>,
   <<"i", "n", "s", "e", "r", "t">>, <<"u", "n", "p", "c", "k">>}

\* kLogicOp
kLogicOp ==
  {<<"a", "n", "d">>, <<"o", "r">>, <<"s", "h", "l">>, <<"s", "h", "r">>,
   <<"s", "l", "l">>, <<"s", "r", "a">>, <<"s", "r", "l">>,
   <<"t", "e", "r", "n">>, <<"t", "e", "s", "t">>, <<"x", "o", "r">>,
   <<"c", "m", "p">>, <<"n", "o", "t">>}

\* kMemOp
kMemOp ==
  {<<"e", "x", "p", "a", "n", "d">>, <<"g", "a", "t", "h", "e", "r">>,
   <<"s", "c", "a", "t", "t", "e", "r">>, <<"m", "o", "v">>,
   <<"s", "t", "o">>, <<"l", "a", "h">>, <<"l", "d", "s">>,
   <<"l", "e", "a">>, <<"l", "e", "s">>, <<"l", "o", "d">>}

\* kJumpOp
kJumpOp ==
  {<<"j", "m", "p">>}

\* kBranchOp
kBranchOp ==
  {<<"j", "a">>, <<"j", "b">>, <<"j", "c">>, <<"j", "e">>, <<"j", "g">>,
   <<"j", "l">>, <<"j", "l", "e">>, <<"j", "n">>, <<"j", "o">>,
   <<"j", "p">>, <<"j", "s">>, <<"j", "z">>}

\* std::tolower in the C locale
UpperCase == <<"A", "B", "C", "D", "E", "F", "G", "H", "I", "J", "K", "L", "M", "N", "O", "P", "Q", "R", "S", "T", "U", "V", "W", "X", "Y", "Z">>
LowerCase == <<"a", "b", "c", "d", "e", "f", "g", "h", "i", "j", "k", "l", "m", "n", "o", "p", "q", "r", "s", "t", "u", "v", "w", "x", "y", "z">>
ToLower(ch) ==
  IF \E k \in 1..Len(UpperCase) : UpperCase[k] = ch
  THEN LowerCase[CHOOSE k \in 1..Len(UpperCase) : UpperCase[k] = ch]
  ELSE ch

\* assembly::DataOrigin: the classes and the shifts of the two fields
DataOrigin ==
  [UNKNOWN |-> 0, MEMORY |-> 1, REGISTER |-> 2, IMMEDIATE |-> 3,
   INPUT |-> 0, OUTPUT |-> 2, MASK |-> 3]

\* x << n and x >> n on uint8_t, x & MASK for the two-bit mask
Shl8(x, n) == (x * 2^n) % 256
Shr8(x, n) == x \div 2^n
Mask2(x) == x % (DataOrigin.MASK + 1)

\* the lambda detorigin of Classify
DetOrigin(ch) ==
  CASE ch = "r" -> DataOrigin.REGISTER
    [] ch = "m" -> DataOrigin.MEMORY
    [] ch = "i" -> DataOrigin.IMMEDIATE
    [] OTHER -> DataOrigin.UNKNOWN

\* Classify, lines 106-113: the origin packed from the classes o of
\* operands[0] and i of operands[1]; the two fields do not overlap, so the
\* bitwise or is a sum
OriginPacked(o, i) ==
  Shl8(i, DataOrigin.INPUT) + Shl8(o, DataOrigin.OUTPUT)

\* AsmClassifier::OriginDecomposed: the pair {i, o}
OriginDecomposed_OutputFirst(origin) ==
  << Mask2(Shr8(origin, DataOrigin.OUTPUT)),
     Mask2(Shr8(origin, DataOrigin.INPUT)) >>

OriginDecomposed(origin) ==
  << Mask2(Shr8(origin, DataOrigin.INPUT)),
     Mask2(Shr8(origin, DataOrigin.OUTPUT)) >>

\* Classify, lines 106-113: the origin of an operand-type string
OriginOf(operands) ==
  IF Len(operands) = 2
  THEN OriginPacked(DetOrigin(operands[1]), DetOrigin(operands[2]))
  ELSE IF Len(operands) = 1 THEN DetOrigin(operands[1])
  ELSE 0

\* Classify, lines 127-138: the family of a mnemonic
FamilyOf_MemoryFirst(inst) ==
  IF AnyFound(inst, kMemOp) THEN "MEMORY"
  ELSE IF AnyFound(inst, kArithOp) THEN "ARITHMETIC"
  ELSE IF AnyFound(inst, kBitManOp) THEN "LOGIC"
  ELSE IF AnyFound(inst, kLogicOp) THEN "LOGIC"
  ELSE IF AnyFound(inst, kJumpOp) THEN "JUMP"
  ELSE IF AnyFound(inst, kBranchOp) THEN "BRANCH"
  ELSE "OTHER"

FamilyOf(inst) ==
  IF AnyFound(inst, kArithOp) THEN "ARITHMETIC"
  ELSE IF AnyFound(inst, kBitManOp) THEN "LOGIC"
  ELSE IF AnyFound(inst, kLogicOp) THEN "LOGIC"
  ELSE IF AnyFound(inst, kMemOp) THEN "MEMORY"
  ELSE IF AnyFound(inst, kJumpOp) THEN "JUMP"
  ELSE IF AnyFound(inst, kBranchOp) THEN "BRANCH"
  ELSE "OTHER"

\* Classify, lines 140-156: the type from the first character and the family
TypeOf(inst, family) ==
  LET compute_op == family \in {"ARITHMETIC", "LOGIC", "MEMORY"}
  IN IF ToLower(inst[1]) \in {"v", "p"}
     THEN (IF compute_op THEN "VECTOR" ELSE "UNCLASSIFIED")
     ELSE (IF compute_op THEN "SCALAR" ELSE "UNCLASSIFIED")

\* x86Classifier::Classify(inst, operands)
Classify(inst, operands) ==
  IF inst = << >>
  THEN [type |-> "UNCLASSIFIED", family |-> "OTHER", origin |-> 0]
  ELSE [type |-> TypeOf(inst, FamilyOf(inst)), family |-> FamilyOf(inst),
        origin |-> OriginOf(operands)]

\* the lambda classify of OperandTypes
OperandClass(in) ==
  IF StrFind(in, <<"(">>) # 0 THEN <<"m">>
  ELSE IF StrFind(in, <<"$">>) # 0 THEN <<"i">>
  ELSE IF StrFind(in, <<"%">>) # 0 THEN <<"r">>
  ELSE <<"u">>

\* std::string::substr(pos) with pos counted from 1
SubstrFrom(s, pos) == SubSeq(s, pos, Len(s))

\* x86Classifier::OperandTypes(operands)
OperandTypes(operands) ==
  LET idx_firstmem == StrFind(operands, <<")", ",">>)
      idx_firstcomma == StrFind(operands, <<",">>)
      firstop == IF idx_firstmem # 0 THEN << >>
                 ELSE SubSeq(operands, 1, idx_firstcomma - 1)
      secondop == IF idx_firstmem # 0
                  THEN SubstrFrom(operands, idx_firstmem + 2)
                  ELSE SubstrFrom(operands, idx_firstcomma + 1)
      res == IF idx_firstmem # 0 THEN <<"m">> ELSE << >>
      res1 == IF firstop # << >> THEN OperandClass(firstop) \o res ELSE res
  IN IF idx_firstcomma = 0 THEN <<"u">>
     ELSE IF secondop # << >> THEN res1 \o OperandClass(secondop) ELSE res1

(* ------------------------ perf-annotate observer ----------------------- *)
\* largest number of lines the annotator prints
MaxLines == 2
\* largest percent of a line, in hundredths of a percent; the smallest is
\* the threshold itself
MaxPercent == 2

\* PERF_ANNOTATE_THRES, 0.01, in hundredths of a percent
PERF_ANNOTATE_THRES == 1

\* the build is one for x86, where the constructor gets a classifier
X86Build == TRUE

\* the instructions (mnemonic, operands) the annotated lines show
Shown ==
  { [assembly |-> <<"a", "d", "d">>, operands |-> <<"%", "a", ",", "%", "b">>],
    [assembly |-> <<"s", "u", "b">>, operands |-> <<"%", "c", ",", "%", "d">>],
    [assembly |-> <<"j", "e">>, operands |-> <<"4", "0">>] }

\* ParseResults, lines 117-120, for each instruction shown: the histogram
\* key and the taxonomy leaf the classifier gives it
Classified ==
  [i \in Shown |->
     LET optypes == OperandTypes(i.operands)
         c == Classify(i.assembly, optypes)
     IN [assembly |-> i.assembly \o <<"_">> \o optypes,
         leaf |-> <<c.type, c.family, c.origin>>]]

\* the lines of the annotator: "percent : address mnemonic operands", or a
\* line whose first token is no number
AnnotatedLines ==
  [lead : {"number"}, percent : PERF_ANNOTATE_THRES..MaxPercent, insn : Shown]
    \cup [lead : {"text"}, percent : {MaxPercent},
          insn : {CHOOSE i \in Shown : i.assembly = <<"j", "e">>}]

\* the outputs of the annotator: up to MaxLines lines
AnnotatorOutputs ==
  UNION {[1..n -> AnnotatedLines] : n \in 0..MaxLines}

\* std::map operator[] followed by += : the entry is created when absent
AddTo(map, key, percent) ==
  [k \in DOMAIN map \cup {key} |->
     IF k = key
     THEN (IF key \in DOMAIN map THEN map[key] + percent ELSE percent)
     ELSE map[k]]

\* ParseResults, lines 104-110: the line is passed over
Dropped_NoThreshold(line) == line.lead # "number"

Dropped(line) ==
  line.lead # "number" \/ PERF_ANNOTATE_THRES >= line.percent

\* ParseResults, lines 137-159: percent added to the taxonomy leaf
AddLeaf_Assign(classification, leaf, percent) ==
  [k \in DOMAIN classification \cup {leaf} |->
     IF k = leaf THEN percent ELSE classification[k]]

AddLeaf(classification, leaf, percent) ==
  AddTo(classification, leaf, percent)

\* ParseResults, the body of the loop for one line
ParseLine(r, line) ==
  IF Dropped(line) \/ ~X86Build THEN r
  ELSE LET c == Classified[line.insn]
       IN [r EXCEPT
             !.histogram = AddTo(r.histogram, c.assembly, line.percent),
             !.classification =
                AddLeaf(r.classification, c.leaf, line.percent)]

\* ParseResults, the loop from line i on
RECURSIVE ParseFrom(_, _, _)
ParseFrom(r, lines, i) ==
  IF i > Len(lines) THEN r
  ELSE ParseFrom(ParseLine(r, lines[i]), lines, i + 1)

\* an empty std::map
NoMap == [k \in {} |-> 0]

\* PerfAnnotateObserver(record): nothing parsed yet
InitAnnotate ==
  /\ alive = Pids
  /\ workers = [p \in AllPids |-> NoWorker]
  /\ sys = [thread |-> FALSE, running |-> FALSE, pc |-> "none", nthreads |-> 0]
  /\ ctl = [pc |-> "recv", pid |-> 0, state |-> FALSE]
  /\ ret = NoRet
  /\ active_pids = << >>
  /\ log = << >>
  /\ obs = [o \in ObsIds |-> NoObserver]
  /\ perf_ub = FALSE
  /\ hist = [p \in Pids |-> NoHist]
  /\ sock = NoSock
  /\ meter = NoMeter
  /\ insn = [kind |-> "annotate", valid_ |-> FALSE, histogram |-> NoMap,
             classification |-> NoMap, lines |-> << >>, triggers |-> 0]
  /\ csv = NoCsv
  /\ lister = NoLister
  /\ launcher = NoLauncher
  /\ pcm = NoPcm

\* PerfAnnotateObserver::Trigger while the record observer is not valid:
\* NOT_READY; triggers counts the calls of Trigger (up to 2)
AnnotateTriggerNotReady ==
  /\ insn.kind = "annotate"
  /\ insn' = [insn EXCEPT !.triggers = Min(insn.triggers + 1, 2)]
  /\ UNCHANGED << alive, workers, sys, ctl, ret, active_pids, log, obs,
                  perf_ub, hist, sock, meter,
                  csv, lister, launcher, pcm >>

\* PerfAnnotateObserver::Trigger when the annotate command cannot be run:
\* FILE_ERROR
AnnotateTriggerNoPipe ==
  /\ insn.kind = "annotate"
  /\ insn' = [insn EXCEPT !.triggers = Min(insn.triggers + 1, 2)]
  /\ UNCHANGED << alive, workers, sys, ctl, ret, active_pids, log, obs,
                  perf_ub, hist, sock, meter,
                  csv, lister, launcher, pcm >>

\* PerfAnnotateObserver::Trigger with the record valid and the pipe open:
\* ParseResults over the output of the annotator; lines keeps the output
\* parsed last
AnnotateTrigger(lines) ==
  /\ insn.kind = "annotate"
  /\ insn' = [ParseFrom([insn EXCEPT !.histogram = NoMap,
                                     !.classification = NoMap], lines, 1)
                EXCEPT !.valid_ = TRUE, !.lines = lines,
                       !.triggers = Min(insn.triggers + 1, 2)]
  /\ UNCHANGED << alive, workers, sys, ctl, ret, active_pids, log, obs,
                  perf_ub, hist, sock, meter,
                  csv, lister, launcher, pcm >>

NextAnnotate ==
  \/ AnnotateTriggerNotReady
  \/ AnnotateTriggerNoPipe
  \/ \E lines \in AnnotatorOutputs : AnnotateTrigger(lines)

SpecAnnotate == InitAnnotate /\ [][NextAnnotate]_vars

(* ----------------------- classifier, called alone ---------------------- *)
\* the mnemonics handed to Classify: a prefix, a stem and a suffix
Prefixes ==
  {<< >>, <<"v">>, <<"p">>, <<"V">>, <<"c">>}

\* the stems
Stems ==
  {<<"a", "d", "d">>, <<"m", "u", "l">>, <<"m", "o", "v", "a", "b", "s">>,
   <<"a", "n", "d">>, <<"x", "o", "r">>, <<"s", "h", "u", "f">>,
   <<"c", "m", "p">>, <<"m", "o", "v">>, <<"l", "e", "a">>,
   <<"j", "m", "p">>, <<"j", "l", "e">>, <<"j", "a">>, <<"n", "o", "p">>,
   <<"u", "s", "h">>, <<"c", "a", "l", "l">>}

\* the suffixes
Suffixes ==
  {<< >>, <<"p", "d">>, <<"q">>, <<"s">>}

Mnemonics ==
  {p \o s \o x : p \in Prefixes, s \in Stems, x \in Suffixes} \cup {<< >>}

\* the operand-type strings handed to Classify: none, one or two classes
OperandClasses == {"u", "m", "r", "i"}
OperandStrings ==
  {<< >>} \cup {<<a>> : a \in OperandClasses}
    \cup {<<a, b>> : a \in OperandClasses, b \in OperandClasses}

\* no result yet
NoPair == [type |-> "UNCLASSIFIED", family |-> "OTHER", origin |-> 0]

InitClassify ==
  /\ alive = Pids
  /\ workers = [p \in AllPids |-> NoWorker]
  /\ sys = [thread |-> FALSE, running |-> FALSE, pc |-> "none", nthreads |-> 0]
  /\ ctl = [pc |-> "recv", pid |-> 0, state |-> FALSE]
  /\ ret = NoRet
  /\ active_pids = << >>
  /\ log = << >>
  /\ obs = [o \in ObsIds |-> NoObserver]
  /\ perf_ub = FALSE
  /\ hist = [p \in Pids |-> NoHist]
  /\ sock = NoSock
  /\ meter = NoMeter
  /\ \E inst \in Mnemonics, operands \in OperandStrings :
       insn = [kind |-> "classify", pc |-> "in", inst |-> inst,
               operands |-> operands, out |-> NoPair, pair |-> <<0, 0>>]
  /\ csv = NoCsv
  /\ lister = NoLister
  /\ launcher = NoLauncher
  /\ pcm = NoPcm

\* a call of x86Classifier::Classify(inst, operands)
ClassifyCall ==
  /\ insn.kind = "classify" /\ insn.pc = "in"
  /\ insn' = [insn EXCEPT !.out = Classify(insn.inst, insn.operands),
                          !.pc = "classified"]
  /\ UNCHANGED << alive, workers, sys, ctl, ret, active_pids, log, obs,
                  perf_ub, hist, sock, meter,
                  csv, lister, launcher, pcm >>

\* a call of AsmClassifier::OriginDecomposed on the origin Classify returned
OriginDecomposedCall ==
  /\ insn.kind = "classify" /\ insn.pc = "classified"
  /\ insn' = [insn EXCEPT !.pair = OriginDecomposed(insn.out.origin),
                          !.pc = "decomposed"]
  /\ UNCHANGED << alive, workers, sys, ctl, ret, active_pids, log, obs,
                  perf_ub, hist, sock, meter,
                  csv, lister, launcher, pcm >>

NextClassify == ClassifyCall \/ OriginDecomposedCall

SpecClassify == InitClassify /\ [][NextClassify]_vars

(* ---------------------------- the CSV logger --------------------------- *)
\* SpecCsv: one CSVLogger (logger/csv.cpp) from construction on.  A line of
\* the file is the text written up to std::endl; a value is its FieldType
\* and payload; a FLOAT payload is given in halves (num), a STRING payload in str.
MaxFields == 2
MaxRows == 2

FieldNames == {"a", "b"}
RowKeys == FieldNames \cup {"z"}
Values ==
  { [type |-> "INTEGER64", num |-> 7, str |-> ""],
    [type |-> "FLOAT", num |-> 3, str |-> ""],
    [type |-> "STRING", num |-> 0, str |-> "x"] }
Absent == [type |-> "absent", num |-> 0, str |-> ""]

\* std::to_string(float): "%f", six digits after the point
FloatToString(halves) ==
  ToString(halves \div 2) \o "." \o (IF halves % 2 = 1 THEN "500000" ELSE "000000")

\* CSVLogger::Stringify
Stringify(val) ==
  CASE val.type = "INTEGER64" -> ToString(val.num)
    [] val.type = "FLOAT" -> FloatToString(val.num)
    [] val.type = "STRING" -> val.str
    [] OTHER -> ""

\* the keys of table_map_ after the constructor's loop over the fields
TableKeys(fields) == { fields[i][1] : i \in 1..Len(fields) }

\* the orders in which a range-for may visit an unordered_map with these
\* keys: the standard leaves the order to the hash table
IterationOrders(keys) ==
  { o \in [1..Cardinality(keys) -> keys] : \A k \in keys : \E i \in DOMAIN o : o[i] = k }

\* `csv_file_ << "," << cell` for every key visited, after the first cell
RECURSIVE Cells(_, _, _)
Cells(line, order, cell) ==
  IF order = << >> THEN line
  ELSE Cells(line \o "," \o cell[Head(order)], Tail(order), cell)

\* CSVLogger::CSVLogger once the file is open: the schema and the header
CSVLoggerCtor(fields, order) ==
  [kind |-> "csv", is_open |-> TRUE, fields |-> fields, order |-> order,
   last_id_ |-> 0,
   text |-> << Cells("ID", order, [k \in TableKeys(fields) |-> k]) >>,
   vals |-> [k \in RowKeys |-> Absent], ret |-> [code |-> "OK", msg |-> ""],
   rows |-> 0]

\* the size of the map handed to InsertRow
ValsSize(vals) == Cardinality({k \in DOMAIN vals : vals[k] # Absent})

\* CSVLogger::InsertRow, the Status of lines 65-67
InsertRowStatus(c, vals) ==
  IF ValsSize(vals) = Cardinality(TableKeys(c.fields))
  THEN [code |-> "OK", msg |-> ""]
  ELSE [code |-> "OK", msg |-> "Not all the fields were present"]

\* CSVLogger::InsertRow
InsertRowBody(c, vals) ==
  IF ~c.is_open
  THEN [c EXCEPT !.vals = vals,
                 !.ret = [code |-> "LOGGER_CANNOT_INSERT",
                          msg |-> "Cannot insert since the file is not opened"]]
  ELSE [c EXCEPT !.vals = vals,
                 !.last_id_ = c.last_id_ + 1,
                 !.text = Append(c.text,
                            Cells(ToString(c.last_id_), c.order,
                                  [k \in TableKeys(c.fields) |->
                                     IF vals[k] # Absent THEN Stringify(vals[k])
                                     ELSE ""])),
                 !.ret = InsertRowStatus(c, vals),
                 !.rows = c.rows + 1]

AnalyserIdle ==
  /\ alive = Pids
  /\ workers = [p \in AllPids |-> NoWorker]
  /\ sys = [thread |-> FALSE, running |-> FALSE, pc |-> "none", nthreads |-> 0]
  /\ ctl = [pc |-> "recv", pid |-> 0, state |-> FALSE]
  /\ ret = NoRet
  /\ active_pids = << >>
  /\ log = << >>
  /\ obs = [o \in ObsIds |-> NoObserver]
  /\ perf_ub = FALSE
  /\ hist = [p \in Pids |-> NoHist]
  /\ sock = NoSock

\* schemas that name every field once, as the workers' schemas do
Schemas ==
  { f \in UNION { [1..n -> (FieldNames \X {"INTEGER64", "FLOAT"})] :
                    n \in 1..MaxFields } :
      \A i, j \in DOMAIN f : f[i][1] = f[j][1] => i = j }

InitCsv ==
  /\ AnalyserIdle
  /\ meter = NoMeter
  /\ insn = NoInsn
  /\ \E fields \in Schemas :
       \E order \in IterationOrders(TableKeys(fields)) :
         csv = CSVLoggerCtor(fields, order)
  /\ lister = NoLister
  /\ launcher = NoLauncher
  /\ pcm = NoPcm

InsertRow(vals) ==
  /\ csv.kind = "csv"
  /\ csv.rows < MaxRows
  /\ csv' = InsertRowBody(csv, vals)
  /\ UNCHANGED << alive, workers, sys, ctl, ret, active_pids, log, obs,
                  perf_ub, hist, sock, meter, insn, lister, launcher, pcm >>

NextCsv == \E vals \in [RowKeys -> Values \cup {Absent}] : InsertRow(vals)

SpecCsv == InitCsv /\ [][NextCsv]_vars

(* -------------------------- the process lister ------------------------- *)
\* SpecLister: one ProcPsProcessLister (proc/list.cpp).  A process is its
\* pid; readproc hands out each process of the table once, by rising pid.
MaxProc == 3
MaxDetects == 3

\* the vector filled by the readproc loop for a set of running processes
RECURSIVE Enumerated(_)
Enumerated(running) ==
  IF running = {} THEN << >>
  ELSE LET p == CHOOSE q \in running : \A r \in running : q <= r
       IN << p >> \o Enumerated(running \ {p})

\* the loop of lines 40-49 over what is left of `detected`
RECURSIVE Analyse(_, _)
Analyse(l, detected) ==
  IF detected = << >> THEN l
  ELSE Analyse(IF ~InVec(l.last_, Head(detected))
               THEN [l EXCEPT !.new_ = Append(l.new_, Head(detected))]
               ELSE [l EXCEPT !.dead_ = Append(l.dead_, Head(detected))],
               Tail(detected))

\* ProcPsProcessLister::Detect
DetectBody(l, detected) ==
  [Analyse([l EXCEPT !.new_ = << >>, !.dead_ = << >>], detected)
     EXCEPT !.last_ = detected, !.before = l.last_, !.detects = l.detects + 1]

InitLister ==
  /\ AnalyserIdle
  /\ meter = NoMeter
  /\ insn = NoInsn
  /\ csv = NoCsv
  /\ lister = [kind |-> "lister", last_ |-> << >>, new_ |-> << >>,
               dead_ |-> << >>, before |-> << >>, detects |-> 0]
  /\ launcher = NoLauncher
  /\ pcm = NoPcm

Detect(running) ==
  /\ lister.kind = "lister"
  /\ lister.detects < MaxDetects
  /\ lister' = DetectBody(lister, Enumerated(running))
  /\ UNCHANGED << alive, workers, sys, ctl, ret, active_pids, log, obs,
                  perf_ub, hist, sock, meter, insn, csv, launcher, pcm >>

NextLister == \E running \in SUBSET (1..MaxProc) : Detect(running)

SpecLister == InitLister /\ [][NextLister]_vars

(* ----------------------------- the launcher ---------------------------- *)
\* SpecLauncher: main() of efimon-launcher.cpp with the thread running
\* launch_command, the child process and the daemon's replies.  A request
\* and the reply to it are one step of main (send, then a blocking recv).
MaxTarget == 2
MaxPolls == 2

\* Status::STOPPED, the second code after ACCESS_DENIED in the list of kinds
StoppedCode == Len(StatusKinds) + 1

\* a pid_t stored into `uint pid`: the 32 bits as two halves of 16 bits,
\* the high half first
AsUint(n) == << (n \div (2 ^ 16)) % (2 ^ 16), n % (2 ^ 16) >>

\* what the daemon may put in "result" for a poll
PollResults == {"Invalid set of params", "0", ToString(StoppedCode)}

\* ProcessManager::GetPID: the pid of the opened stream, -1 without one
GetPID(l) == IF l.child = "none" THEN 0 - 1 ELSE l.target

InitLauncher ==
  /\ AnalyserIdle
  /\ meter = NoMeter
  /\ insn = NoInsn
  /\ csv = NoCsv
  /\ lister = NoLister
  /\ pcm = NoPcm
  /\ \E mode \in {"command", "pid"}, target \in 1..MaxTarget :
       launcher = [kind |-> "launcher", mode |-> mode, target |-> target,
                   pid |-> IF mode = "pid" THEN AsUint(target) ELSE AsUint(0),
                   pc |-> "begin", th |-> "none", child |-> "none",
                   close |-> FALSE, terminated |-> FALSE, handler |-> FALSE,
                   sigint |-> FALSE, starts |-> {}, polls |-> {}, stops |-> {},
                   npolls |-> 0, exit |-> "none"]

LauncherOnly ==
  UNCHANGED << alive, workers, sys, ctl, ret, active_pids, log, obs,
               perf_ub, hist, sock, meter, insn, csv, lister, pcm >>

\* main, lines 387-399: the thread is created in command mode only
MainLaunch ==
  /\ launcher.kind = "launcher" /\ launcher.pc = "begin"
  /\ launcher' = IF launcher.mode = "command"
                 THEN [launcher EXCEPT !.pc = "wait", !.th = "open"]
                 ELSE [launcher EXCEPT !.pc = "signal"]
  /\ LauncherOnly

\* main, lines 392-396: wait_for returns on the notification, after three
\* seconds or spuriously
MainWake ==
  /\ launcher.kind = "launcher" /\ launcher.pc = "wait"
  /\ launcher' = [launcher EXCEPT !.pc = "signal"]
  /\ LauncherOnly

\* main, lines 402-409
MainSignal ==
  /\ launcher.kind = "launcher" /\ launcher.pc = "signal"
  /\ launcher' = IF launcher.terminated
                 THEN [launcher EXCEPT !.handler = TRUE, !.pc = "exited",
                                       !.exit = "-1"]
                 ELSE [launcher EXCEPT !.handler = TRUE, !.pc = "start"]
  /\ LauncherOnly

\* main, lines 412-423: connect, take the manager's pid, start_monitor
MainStart ==
  /\ launcher.kind = "launcher" /\ launcher.pc = "start"
  /\ launcher' = [launcher EXCEPT !.pid = AsUint(GetPID(launcher)),
                                  !.starts = {AsUint(GetPID(launcher))},
                                  !.pc = "loop"]
  /\ LauncherOnly

\* main, line 427: the loop condition
MainLoopCheck ==
  /\ launcher.kind = "launcher" /\ launcher.pc = "loop"
  /\ launcher' = [launcher EXCEPT
                    !.pc = IF launcher.terminated THEN "stop" ELSE "poll"]
  /\ LauncherOnly

\* main, lines 430-437: sleep, check_monitor, leave the loop on STOPPED
MainPoll(value) ==
  /\ launcher.kind = "launcher" /\ launcher.pc = "poll"
  /\ launcher' =
       [launcher EXCEPT
          !.polls = launcher.polls \cup {launcher.pid},
          !.npolls = IF launcher.npolls < MaxPolls THEN launcher.npolls + 1
                     ELSE launcher.npolls,
          !.pc = IF CheckMonitor(value).thrown THEN "exited"
                 ELSE IF CheckMonitor(value).code = StoppedCode THEN "stop"
                 ELSE "loop",
          !.exit = IF CheckMonitor(value).thrown THEN "abort" ELSE launcher.exit]
  /\ LauncherOnly

\* main, lines 440-451: set close unless terminated, stop_monitor
MainStop ==
  /\ launcher.kind = "launcher" /\ launcher.pc = "stop"
  /\ launcher' = [launcher EXCEPT
                    !.close = launcher.close \/ ~launcher.terminated,
                    !.stops = {launcher.pid},
                    !.pc = "join"]
  /\ LauncherOnly

\* main, lines 454-456: std::thread::join throws for a thread that was never
\* started, and nothing catches it
MainJoin ==
  /\ launcher.kind = "launcher" /\ launcher.pc = "join"
  /\ launcher.th \in {"none", "done"}
  /\ launcher' = [launcher EXCEPT
                    !.pc = "exited",
                    !.exit = IF launcher.th = "none" THEN "abort" ELSE "0"]
  /\ LauncherOnly

\* launch_command, lines 96-114: Open and the first notification
ThreadOpen(ok) ==
  /\ launcher.kind = "launcher" /\ launcher.th = "open"
  /\ launcher' = IF ok
                 THEN [launcher EXCEPT !.child = "running", !.th = "check"]
                 ELSE [launcher EXCEPT !.terminated = TRUE, !.th = "done"]
  /\ LauncherOnly

\* launch_command, lines 118-123: IsRunning reads a line of the child or
\* finds its output closed
ThreadIsRunning ==
  /\ launcher.kind = "launcher" /\ launcher.th = "check"
  /\ launcher' = IF launcher.child = "exited"
                 THEN [launcher EXCEPT !.terminated = TRUE, !.th = "closing"]
                 ELSE [launcher EXCEPT !.th = "sleep"]
  /\ LauncherOnly

\* launch_command, lines 126-131: sleep, then read the close flag
ThreadCheckClose ==
  /\ launcher.kind = "launcher" /\ launcher.th = "sleep"
  /\ launcher' = [launcher EXCEPT
                    !.th = IF launcher.close THEN "closing" ELSE "check"]
  /\ LauncherOnly

\* launch_command, lines 133-135: Close returns once the child has exited
ThreadClose ==
  /\ launcher.kind = "launcher" /\ launcher.th = "closing"
  /\ launcher.child = "exited"
  /\ launcher' = [launcher EXCEPT !.th = "done"]
  /\ LauncherOnly

\* the child process ends
ChildExit ==
  /\ launcher.kind = "launcher" /\ launcher.child = "running"
  /\ launcher' = [launcher EXCEPT !.child = "exited"]
  /\ LauncherOnly

\* signal_handler, run for a SIGINT that arrives once it is installed
SignalHandler ==
  /\ launcher.kind = "launcher" /\ launcher.handler /\ ~launcher.sigint
  /\ launcher.pc # "exited"
  /\ launcher' = [launcher EXCEPT !.close = TRUE, !.sigint = TRUE]
  /\ LauncherOnly

MainStep ==
  \/ MainLaunch
  \/ MainWake
  \/ MainSignal
  \/ MainStart
  \/ MainLoopCheck
  \/ \E value \in PollResults : MainPoll(value)
  \/ MainStop
  \/ MainJoin

ThreadStep ==
  \/ \E ok \in BOOLEAN : ThreadOpen(ok)
  \/ ThreadIsRunning
  \/ ThreadCheckClose
  \/ ThreadClose

NextLauncher ==
  \/ MainLaunch
  \/ MainWake
  \/ MainSignal
  \/ MainStart
  \/ MainLoopCheck
  \/ \E value \in PollResults : MainPoll(value)
  \/ MainStop
  \/ MainJoin
  \/ \E ok \in BOOLEAN : ThreadOpen(ok)
  \/ ThreadIsRunning
  \/ ThreadCheckClose
  \/ ThreadClose
  \/ ChildExit
  \/ SignalHandler

SpecLauncher == InitLauncher /\ [][NextLauncher]_vars

\* both threads keep being scheduled and the child ends at some time; when
\* a SIGINT arrives and what the daemon answers is left open
FairLauncher ==
  SpecLauncher /\ WF_vars(MainStep) /\ WF_vars(ThreadStep) /\ WF_vars(ChildExit)

(* ------------------ perf-record with its perf-annotate ----------------- *)
\* SpecPair: the PerfRecordObserver obs[1] and the PerfAnnotateObserver
\* built on it (insn).  Observer MaxObs holds pid MaxPerfPid from the start,
\* so that a SetPID of obs[1] can meet a pid that is taken.  insn.invoked
\* tells whether the last Trigger of the annotate observer ran the annotator.
InitPair ==
  /\ alive = 1..MaxPerfPid
  /\ workers = [p \in AllPids |-> NoWorker]
  /\ sys = [thread |-> FALSE, running |-> FALSE, pc |-> "none", nthreads |-> 0]
  /\ ctl = [pc |-> "recv", pid |-> 0, state |-> FALSE]
  /\ ret = NoRet
  /\ active_pids = << MaxPerfPid >>
  /\ log = << >>
  /\ obs = [o \in ObsIds |->
              IF o = MaxObs
              THEN [live |-> TRUE, pid |-> MaxPerfPid, cmd_pid |-> MaxPerfPid,
                    tmp_pid |-> MaxPerfPid, valid |-> FALSE]
              ELSE NoObserver]
  /\ perf_ub = FALSE
  /\ hist = [p \in Pids |-> NoHist]
  /\ sock = NoSock
  /\ meter = NoMeter
  /\ insn = [kind |-> "pair", valid_ |-> FALSE, histogram |-> NoMap,
             classification |-> NoMap, invoked |-> FALSE]
  /\ csv = NoCsv
  /\ lister = NoLister
  /\ launcher = NoLauncher
  /\ pcm = NoPcm

\* PerfRecordObserver::Reset
PerfRecordReset_KeepsValid(o) ==
  /\ obs[o].live
  /\ obs' = obs
  /\ ret' = Ret("reset", obs[o].pid, "OK", FALSE)
  /\ UNCHANGED << alive, workers, sys, ctl, active_pids, log, perf_ub, hist,
                  sock, meter, insn, csv, lister, launcher, pcm >>

PerfRecordReset(o) ==
  /\ obs[o].live
  /\ obs' = [obs EXCEPT ![o].valid = FALSE]
  /\ ret' = Ret("reset", obs[o].pid, "OK", FALSE)
  /\ UNCHANGED << alive, workers, sys, ctl, active_pids, log, perf_ub, hist,
                  sock, meter, insn, csv, lister, launcher, pcm >>

\* PerfAnnotateObserver::Trigger on the record observer o; pipe: the
\* annotate command could be started; lines: what it printed
PerfAnnotateTrigger(o, pipe, lines) ==
  /\ insn.kind = "pair" /\ obs[o].live
  /\ IF ~obs[o].valid
     THEN /\ ret' = Ret("annotate", obs[o].pid, "NOT_READY", FALSE)
          /\ insn' = [insn EXCEPT !.invoked = FALSE]
     ELSE IF ~pipe
          THEN /\ ret' = Ret("annotate", obs[o].pid, "FILE_ERROR", FALSE)
               /\ insn' = [insn EXCEPT !.invoked = TRUE]
          ELSE /\ ret' = Ret("annotate", obs[o].pid, "OK", FALSE)
               /\ insn' = [ParseFrom([insn EXCEPT !.histogram = NoMap,
                                                  !.classification = NoMap],
                                     lines, 1)
                             EXCEPT !.valid_ = TRUE, !.invoked = TRUE]
  /\ UNCHANGED << alive, workers, sys, ctl, active_pids, log, obs, perf_ub,
                  hist, sock, meter, csv, lister, launcher, pcm >>

\* the annotator's outputs tried in SpecPair: nothing or one line
PairOutputs == { << >> } \cup { << l >> : l \in AnnotatedLines }

NextPair ==
  \/ \E pid \in PerfPids : PerfRecordObserverCtor(1, pid)
  \/ \E pid \in PerfPids : SetPID(1, pid)
  \/ Trigger(1)
  \/ PerfRecordReset(1)
  \/ \E pipe \in BOOLEAN, lines \in PairOutputs : PerfAnnotateTrigger(1, pipe, lines)
  \/ \E p \in 1..MaxPerfPid : ProcessExit(p)

SpecPair == InitPair /\ [][NextPair]_vars

(* --------------------- the native counter observer --------------------- *)
\* SpecIntel: the statics of power/intel.cpp (pcm_mutex_, pcm_instance_,
\* pcm_valid_) and the IntelMeterObserver objects built on them.  valid_[i]
\* and readings_[i] belong to the i-th observer whose constructor returned;
\* last is the outcome of the constructor called last and owned tells
\* whether an observer existed when it was called; clock is the uptime.
MaxIntel == 3

\* PCM::program(): the ErrorCode it may return
ProgramResults == {"Success", "MSRAccessDenied", "PMUBusy", "UnknownError"}

NoCall == [code |-> "none", thrown |-> FALSE, blocked |-> FALSE, owned |-> FALSE]

\* IntelMeterObserver::Trigger, the part that touches the statics and valid_
IntelTriggerBody(p, i) ==
  IF p.pcm_valid_ > 0
  THEN [p EXCEPT !.pcm_valid_ = IF p.pcm_valid_ = 2 THEN 2 ELSE p.pcm_valid_ + 1,
                 !.readings_ =
                    [p.readings_ EXCEPT
                       ![i] = [timestamp |-> p.clock,
                               difference |-> p.clock - p.readings_[i].timestamp]],
                 !.valid_ = [p.valid_ EXCEPT ![i] = TRUE]]
  ELSE [p EXCEPT !.pcm_valid_ = p.pcm_valid_ + 1]

\* a constructor that returns: one more observer, with valid_ false; its
\* readings_ are as Reset leaves them
Constructed(p) ==
  [p EXCEPT !.valid_ = Append(p.valid_, FALSE),
            !.readings_ = Append(p.readings_, [timestamp |-> 0, difference |-> 0]),
            !.last = [code |-> "OK", thrown |-> FALSE, blocked |-> FALSE,
                      owned |-> Len(p.valid_) > 0]]

\* a constructor that throws the Status code
Throws(p, code) ==
  [p EXCEPT !.last = [code |-> code, thrown |-> TRUE, blocked |-> FALSE,
                      owned |-> Len(p.valid_) > 0]]

\* IntelMeterObserver::IntelMeterObserver with pcm_mutex_ free
IntelCtorBody_BusyWhenOwned(p, scope, program) ==
  IF scope # "SYSTEM" THEN Throws(p, "INVALID_PARAMETER")
  ELSE IF ~p.pcm_instance_
  THEN CASE program = "Success" ->
              IntelTriggerBody(Constructed([p EXCEPT !.pcm_instance_ = TRUE]),
                               Len(p.valid_) + 1)
         [] program = "MSRAccessDenied" ->
              Throws([p EXCEPT !.pcm_instance_ = TRUE, !.pcm_mutex_ = "locked"],
                     "ACCESS_DENIED")
         [] program = "PMUBusy" ->
              Throws([p EXCEPT !.pcm_instance_ = TRUE, !.pcm_mutex_ = "locked"],
                     "RESOURCE_BUSY")
         [] OTHER ->
              Throws([p EXCEPT !.pcm_instance_ = TRUE, !.pcm_mutex_ = "locked"],
                     "ACCESS_DENIED")
  ELSE Throws([p EXCEPT !.pcm_mutex_ = "locked"], "RESOURCE_BUSY")

IntelCtorBody(p, scope, program) ==
  IF scope # "SYSTEM" THEN Throws(p, "INVALID_PARAMETER")
  ELSE IF ~p.pcm_instance_
  THEN CASE program = "Success" ->
              IntelTriggerBody(Constructed([p EXCEPT !.pcm_instance_ = TRUE]),
                               Len(p.valid_) + 1)
         [] program = "MSRAccessDenied" ->
              Throws([p EXCEPT !.pcm_instance_ = TRUE, !.pcm_mutex_ = "locked"],
                     "ACCESS_DENIED")
         [] program = "PMUBusy" ->
              Throws([p EXCEPT !.pcm_instance_ = TRUE, !.pcm_mutex_ = "locked"],
                     "RESOURCE_BUSY")
         [] OTHER ->
              Throws([p EXCEPT !.pcm_instance_ = TRUE, !.pcm_mutex_ = "locked"],
                     "ACCESS_DENIED")
  ELSE Constructed([p EXCEPT !.pcm_mutex_ = "locked"])

\* pcm_mutex_.lock() on the locked mutex: the caller waits for an unlock
\* that no code path makes; when the caller is the thread that locked it
\* the call is undefined and may also throw std::system_error
LockOutcomes(p) ==
  { [p EXCEPT !.last = [code |-> "none", thrown |-> FALSE, blocked |-> TRUE,
                        owned |-> Len(p.valid_) > 0]],
    [p EXCEPT !.last = [code |-> "system_error", thrown |-> TRUE,
                        blocked |-> FALSE, owned |-> Len(p.valid_) > 0]] }

InitIntel ==
  /\ AnalyserIdle
  /\ meter = NoMeter
  /\ insn = NoInsn
  /\ csv = NoCsv
  /\ lister = NoLister
  /\ launcher = NoLauncher
  /\ pcm = [kind |-> "intel", pcm_mutex_ |-> "free", pcm_instance_ |-> FALSE,
            pcm_valid_ |-> 0, valid_ |-> << >>, readings_ |-> << >>,
            clock |-> 1, calls |-> 0, last |-> NoCall]

IntelOnly ==
  UNCHANGED << alive, workers, sys, ctl, ret, active_pids, log, obs,
               perf_ub, hist, sock, meter, insn, csv, lister, launcher >>

\* IntelMeterObserver::IntelMeterObserver(pid, scope, interval)
IntelMeterObserverCtor(scope, program) ==
  /\ pcm.kind = "intel"
  /\ pcm.calls < MaxIntel
  /\ IF scope = "SYSTEM" /\ pcm.pcm_mutex_ = "locked"
     THEN \E p \in LockOutcomes(pcm) : pcm' = [p EXCEPT !.calls = pcm.calls + 1]
     ELSE pcm' = [IntelCtorBody(pcm, scope, program)
                    EXCEPT !.calls = pcm.calls + 1]
  /\ IntelOnly

\* IntelMeterObserver::Trigger of the i-th observer; it waits while
\* pcm_mutex_ is locked
IntelTrigger(i) ==
  /\ pcm.kind = "intel"
  /\ i \in DOMAIN pcm.valid_
  /\ pcm.pcm_mutex_ = "free"
  /\ pcm' = IntelTriggerBody(pcm, i)
  /\ IntelOnly

\* the uptime read by GetUptime grows
IntelClockTick ==
  /\ pcm.kind = "intel"
  /\ pcm.clock < MaxClock
  /\ pcm' = [pcm EXCEPT !.clock = pcm.clock + 1]
  /\ IntelOnly

NextIntel ==
  \/ IntelClockTick
  \/ \E scope \in {"SYSTEM", "PROCESS"}, program \in ProgramResults :
       IntelMeterObserverCtor(scope, program)
  \/ \E i \in 1..MaxIntel : IntelTrigger(i)

SpecIntel == InitIntel /\ [][NextIntel]_vars

(* ------------- the shared system readings of the analyser -------------- *)
\* meter holds the analyser's sys_mutex_ (the set of threads inside it: 0
\* is the system collector, r the worker thread r), readings_ (TRUE once
\* SystemStatsWorker has assigned the four pointers), the readings objects
\* of the three system observers under their index in readings_ (whole: no
\* Trigger is in the middle of writing it; fresh: refreshed by the collector;
\* size: psu_max_power.size(), fan_speeds.size(), socket_power.size()), the
\* position c of the collector thread and the worker threads w.
MaxReaders == 1
MaxUnits == 2

Readers == 1..MaxReaders

\* PSU_ENERGY_READINGS, FAN_READINGS, CPU_ENERGY_READINGS, CPU_USAGE_READINGS
ReadingsIndex == 0..3

\* the indices whose sizes make columns of the log table
Counted3 == 0..2

\* the order of the refreshes of the loop of SystemStatsWorker and the
\* readings each observer writes in its Trigger
RefreshOrder == << {3}, {0, 1}, {2} >>

\* the GetReadings calls of CreateLogTable and of LogReadings, in order
Calls(phase) == IF phase = "create" THEN << 0, 1, 2 >> ELSE << 3, 0, 1, 2 >>

\* a default-constructed PSUReadings / FanReadings / CPUReadings
DefaultReadings == [whole |-> TRUE, fresh |-> FALSE, size |-> 0]

\* the readings of an observer after its constructor (Reset and Trigger)
BuiltReadings(units) == [whole |-> TRUE, fresh |-> FALSE, size |-> units]

IdleReader ==
  [phase |-> "idle", k |-> 1, at |-> "call", code |-> "OK",
   out |-> DefaultReadings,
   table |-> [i \in Counted3 |-> 0], vals |-> [i \in Counted3 |-> 0]]

InitShared ==
  /\ AnalyserIdle
  /\ \E units \in 1..MaxUnits :
       meter = [kind |-> "shared", units |-> units, sys_mutex_ |-> {},
                readings_ |-> FALSE,
                data |-> [i \in ReadingsIndex |-> BuiltReadings(units)],
                c |-> [pc |-> "start", m |-> 1],
                w |-> [r \in Readers |-> IdleReader]]
  /\ insn = NoInsn /\ csv = NoCsv /\ lister = NoLister
  /\ launcher = NoLauncher /\ pcm = NoPcm

SharedOnly ==
  UNCHANGED << alive, workers, sys, ctl, ret, active_pids, log, obs,
               perf_ub, hist, sock, insn, csv, lister, launcher, pcm >>

\* SystemStatsWorker, line 172: sys_mutex_.lock()
CollectorLock ==
  /\ meter.kind = "shared" /\ meter.c.pc = "start"
  /\ meter.sys_mutex_ = {}
  /\ meter' = [meter EXCEPT !.sys_mutex_ = {0}, !.c.pc = "publish"]
  /\ SharedOnly

\* SystemStatsWorker, lines 173-180: the four pointers are assigned
CollectorPublish ==
  /\ meter.kind = "shared" /\ meter.c.pc = "publish"
  /\ meter' = [meter EXCEPT !.readings_ = TRUE, !.c.pc = "published"]
  /\ SharedOnly

\* SystemStatsWorker, line 181: sys_mutex_.unlock()
CollectorUnlock ==
  /\ meter.kind = "shared" /\ meter.c.pc = "published"
  /\ meter' = [meter EXCEPT !.sys_mutex_ = @ \ {0},
                            !.c = [pc |-> "refresh", m |-> 1]]
  /\ SharedOnly

\* RefreshProcSys / RefreshIPMI / RefreshRAPL: the scoped_lock is taken
RefreshLock ==
  /\ meter.kind = "shared" /\ meter.c.pc = "refresh"
  /\ meter.sys_mutex_ = {}
  /\ meter' = [meter EXCEPT !.sys_mutex_ = {0}, !.c.pc = "trigger"]
  /\ SharedOnly

\* the Trigger of the observer starts to write its readings: vectors are
\* cleared (fan_speeds, ipmi.cpp:184) or hold a part of the new sample
RefreshTrigger ==
  /\ meter.kind = "shared" /\ meter.c.pc = "trigger"
  /\ meter' = [meter EXCEPT
       !.data = [i \in ReadingsIndex |->
                   IF i \in RefreshOrder[meter.c.m]
                   THEN [whole |-> FALSE, fresh |-> @[i].fresh,
                         size |-> IF i = 1 THEN 0 ELSE @[i].size]
                   ELSE @[i]],
       !.c.pc = "written"]
  /\ SharedOnly

\* the Trigger (and, for RefreshProcSys, the socket_frequency assignment)
\* has written the whole sample
RefreshWritten ==
  /\ meter.kind = "shared" /\ meter.c.pc = "written"
  /\ meter' = [meter EXCEPT
       !.data = [i \in ReadingsIndex |->
                   IF i \in RefreshOrder[meter.c.m]
                   THEN [whole |-> TRUE, fresh |-> TRUE, size |-> meter.units]
                   ELSE @[i]],
       !.c.pc = "unlock"]
  /\ SharedOnly

\* the scoped_lock of the refresh is released; after RefreshRAPL the thread
\* goes to its sleep_for
RefreshUnlock ==
  /\ meter.kind = "shared" /\ meter.c.pc = "unlock"
  /\ meter' = [meter EXCEPT
       !.sys_mutex_ = @ \ {0},
       !.c = IF meter.c.m < Len(RefreshOrder)
             THEN [pc |-> "refresh", m |-> meter.c.m + 1]
             ELSE [pc |-> "sleep", m |-> 1]]
  /\ SharedOnly

\* SystemStatsWorker, line 189: the sleep_for returns
CollectorWake ==
  /\ meter.kind = "shared" /\ meter.c.pc = "sleep"
  /\ meter' = [meter EXCEPT !.c.pc = "refresh"]
  /\ SharedOnly

\* ProcStatsWorker reaches CreateLogTable (line 136) in a started worker
ReaderBegin(r) ==
  /\ meter.kind = "shared" /\ meter.w[r].phase = "idle"
  /\ meter' = [meter EXCEPT !.w[r].phase = "create"]
  /\ SharedOnly

\* GetReadings without waiting for sys_mutex_
GetReadingsLock_NoWait(r) ==
  /\ meter.kind = "shared"
  /\ meter.w[r].phase \in {"create", "log"} /\ meter.w[r].at = "call"
  /\ meter' = [meter EXCEPT !.sys_mutex_ = @ \cup {r}, !.w[r].at = "locked"]
  /\ SharedOnly

\* GetReadings, line 200: the scoped_lock is taken
GetReadingsLock(r) ==
  /\ meter.kind = "shared"
  /\ meter.w[r].phase \in {"create", "log"} /\ meter.w[r].at = "call"
  /\ meter.sys_mutex_ = {}
  /\ meter' = [meter EXCEPT !.sys_mutex_ = {r}, !.w[r].at = "locked"]
  /\ SharedOnly

\* GetReadings, lines 201-210: the cast and the copy into out; the
\* dynamic_cast of a null pointer gives NOT_FOUND and leaves out alone
GetReadingsCopy(r) ==
  /\ meter.kind = "shared" /\ meter.w[r].at = "locked"
  /\ LET index == Calls(meter.w[r].phase)[meter.w[r].k]
     IN meter' = [meter EXCEPT
          !.w[r].out = IF meter.readings_ THEN meter.data[index] ELSE DefaultReadings,
          !.w[r].code = IF meter.readings_ THEN "OK" ELSE "NOT_FOUND",
          !.w[r].at = "copied"]
  /\ SharedOnly

\* the worker after GetReadings has returned: CreateLogTable pushes one
\* column per element (lines 190-212), LogReadings one value per element
\* (lines 282-305); after its last call the row is inserted and the loop
\* of ProcStatsWorker comes back to LogReadings
AfterCall(w) ==
  LET index == Calls(w.phase)[w.k]
      counted == [w EXCEPT !.table = IF w.phase = "create" /\ index \in Counted3
                                     THEN [@ EXCEPT ![index] = w.out.size] ELSE @,
                           !.vals = IF w.phase = "log" /\ index \in Counted3
                                    THEN [@ EXCEPT ![index] = w.out.size] ELSE @,
                           !.out = DefaultReadings, !.code = "OK", !.at = "call"]
  IN IF w.k < Len(Calls(w.phase)) THEN [counted EXCEPT !.k = w.k + 1]
     ELSE IF w.phase = "create" THEN [counted EXCEPT !.phase = "log", !.k = 1]
     ELSE [counted EXCEPT !.k = 1]

\* GetReadings returns: the scoped_lock is released
GetReadingsReturn(r) ==
  /\ meter.kind = "shared" /\ meter.w[r].at = "copied"
  /\ meter' = [meter EXCEPT !.sys_mutex_ = @ \ {r},
                            !.w[r] = AfterCall(meter.w[r])]
  /\ SharedOnly

NextShared ==
  \/ CollectorLock
  \/ CollectorPublish
  \/ CollectorUnlock
  \/ RefreshLock
  \/ RefreshTrigger
  \/ RefreshWritten
  \/ RefreshUnlock
  \/ CollectorWake
  \/ \E r \in Readers : ReaderBegin(r)
  \/ \E r \in Readers : GetReadingsLock(r)
  \/ \E r \in Readers : GetReadingsCopy(r)
  \/ \E r \in Readers : GetReadingsReturn(r)

SpecShared == InitShared /\ [][NextShared]_vars

(* ---------------- the loop of a worker, call by call ------------------- *)
\* SpecTick runs the worker of OnePid with the iteration of ProcStatsWorker
\* split at its blocking calls: pc is "perf_record" while the Trigger of the
\* perf-record observer waits for its sample window, "log" between
\* RefreshProcStat and the tail of the loop, "sleep" inside sleep_for.
Blocking == {"perf_record", "sleep"}

\* ProcStatsWorker, line 144, up to the perf-record Trigger of
\* RefreshProcStat: the process observer is triggered first
TickEnter(p) ==
  /\ workers[p].pc = "body"
  /\ LET w == workers[p]
     IN workers' = [workers EXCEPT
          ![p] = IF RefreshProcStat(w, p, TRUE) # "OK"
                 THEN TickBody(w, RefreshProcStat(w, p, TRUE))
                 ELSE [w EXCEPT !.pc = IF w.perf THEN "perf_record" ELSE "log"]]
  /\ UNCHANGED << alive, sys, ctl, ret, active_pids, log, obs, perf_ub, hist,
                  sock, meter, insn, csv, lister, launcher, pcm >>

\* the perf record command returns after its window and the rest of
\* RefreshProcStat runs
TickPerfRecord(p) ==
  /\ workers[p].pc = "perf_record"
  /\ \E perf_ok \in BOOLEAN :
       LET w == workers[p]
       IN workers' = [workers EXCEPT
            ![p] = IF RefreshProcStat(w, p, perf_ok) # "OK"
                   THEN TickBody(w, RefreshProcStat(w, p, perf_ok))
                   ELSE [w EXCEPT !.pc = "log"]]
  /\ UNCHANGED << alive, sys, ctl, ret, active_pids, log, obs, perf_ub, hist,
                  sock, meter, insn, csv, lister, launcher, pcm >>

\* ProcStatsWorker, lines 147-162: the row is logged, then the thread
\* enters sleep_for if enabled_perf, and goes on to the tail otherwise
TickLog(p) ==
  /\ workers[p].pc = "log"
  /\ LET w == workers[p]
     IN workers' = [workers EXCEPT
          ![p] = IF w.enabled_perf THEN [w EXCEPT !.pc = "sleep"]
                 ELSE TickBody(w, "OK")]
  /\ UNCHANGED << alive, sys, ctl, ret, active_pids, log, obs, perf_ub, hist,
                  sock, meter, insn, csv, lister, launcher, pcm >>

\* ProcStatsWorker, lines 155-162: sleep_for returns and the tail runs
TickWake(p) ==
  /\ workers[p].pc = "sleep"
  /\ workers' = [workers EXCEPT ![p] = TickBody(@, "OK")]
  /\ UNCHANGED << alive, sys, ctl, ret, active_pids, log, obs, perf_ub, hist,
                  sock, meter, insn, csv, lister, launcher, pcm >>

NextTick ==
  \/ \E pid \in {0, OnePid} : StartWorkerRequest(pid)
  \/ \E pid \in {0, OnePid} : CheckWorkerThread(pid)
  \/ \E pid \in {0, OnePid} : StopWorkerThread(pid)
  \/ JoinWorkerThread
  \/ ProcStatsWorkerBegin(OnePid)
  \/ ProcStatsWorkerCheck(OnePid)
  \/ TickEnter(OnePid)
  \/ TickPerfRecord(OnePid)
  \/ TickLog(OnePid)
  \/ TickWake(OnePid)
  \/ ProcessExit(OnePid)

SpecTick == Init /\ [][NextTick]_vars

(* ------------- the probability columns of a logged row ----------------- *)
\* insn holds, for one instruction type and one family of {Arithmetic,
\* Logic, Memory}, the origins of the taxonomy with their weights
\* (classification[type][family]) and, once LogReadings has run, the values
\* it handed to InsertRow for the four columns of that type and family.
LogOrigins ==
  { OriginPacked(o, i) :
      o \in {DataOrigin.MEMORY, DataOrigin.REGISTER, DataOrigin.IMMEDIATE},
      i \in {DataOrigin.MEMORY, DataOrigin.REGISTER, DataOrigin.IMMEDIATE} }

\* the weights a leaf can have: sums of percents above the threshold
Weights == (PERF_ANNOTATE_THRES + 1)..(MaxPercent * MaxLines)

\* the taxonomies of one (type, family) with up to MaxLines origins
Taxonomies ==
  UNION { [S -> Weights] : S \in { T \in SUBSET LogOrigins : Cardinality(T) <= MaxLines } }

\* LogReadings, lines 334-350: the column an origin is logged under
ColumnOf(origin) ==
  LET pairorigin == OriginDecomposed(origin)
  IN IF pairorigin[1] = DataOrigin.MEMORY /\ pairorigin[2] = DataOrigin.MEMORY
     THEN "ProbabilityMemUpdate"
     ELSE IF pairorigin[1] = DataOrigin.MEMORY THEN "ProbabilityMemLoad"
     ELSE IF pairorigin[2] = DataOrigin.MEMORY THEN "ProbabilityMemStore"
     ELSE "ProbabilityRegister"

\* LOG_VAL(vars, name, val): (vars)[name] is assigned val
LOG_VAL(values, name, val) ==
  [k \in DOMAIN values \cup {name} |-> IF k = name THEN val ELSE values[k]]

\* LogReadings, lines 331-351: the loop over the origins of the family, in
\* the order the container hands them out
RECURSIVE LogOriginsFrom(_, _, _)
LogOriginsFrom(values, family, order) ==
  IF order = << >> THEN values
  ELSE LogOriginsFrom(LOG_VAL(values, ColumnOf(Head(order)), family[Head(order)]),
                      family, Tail(order))

InitLog ==
  /\ AnalyserIdle
  /\ meter = NoMeter
  /\ \E family \in Taxonomies :
       insn = [kind |-> "log", pc |-> "in", classification |-> family,
               values |-> NoMap]
  /\ csv = NoCsv /\ lister = NoLister /\ launcher = NoLauncher /\ pcm = NoPcm

\* EfimonWorker::LogReadings, lines 308-370, for the type and family
LogReadings ==
  /\ insn.kind = "log" /\ insn.pc = "in"
  /\ \E order \in IterationOrders(DOMAIN insn.classification) :
       insn' = [insn EXCEPT
                  !.values = LogOriginsFrom(NoMap, insn.classification, order),
                  !.pc = "logged"]
  /\ UNCHANGED << alive, workers, sys, ctl, ret, active_pids, log, obs,
                  perf_ub, hist, sock, meter, csv, lister, launcher, pcm >>

\* the next sample: the annotate observer has parsed a new taxonomy
LogNextSample ==
  /\ insn.kind = "log" /\ insn.pc = "logged"
  /\ \E family \in Taxonomies :
       insn' = [kind |-> "log", pc |-> "in", classification |-> family,
                values |-> NoMap]
  /\ UNCHANGED << alive, workers, sys, ctl, ret, active_pids, log, obs,
                  perf_ub, hist, sock, meter, csv, lister, launcher, pcm >>

NextLog == LogReadings \/ LogNextSample

SpecLog == InitLog /\ [][NextLog]_vars

(* ---------------------- PTX operand classification --------------------- *)
\* largest number of operands of a PTX instruction
MaxOperands == 3

\* the operands a PTX line shows, by class: an immediate, a register, a
\* vector of registers in braces, an address in square brackets
PtxOperand ==
  [i |-> <<"5">>, r |-> <<"%", "a">>,
   v |-> <<"{", "%", "a", ",", "%", "b", "}">>,
   m |-> <<"[", "%", "a", "+", "4", "]">>]

PtxClasses == {"i", "r", "v", "m"}

\* the operand lists: one to MaxOperands classes, the output operand first
PtxOperandLists == UNION { [1..n -> PtxClasses] : n \in 1..MaxOperands }

\* the text of an operand list as it follows the mnemonic: the operands
\* separated by ", " and closed by ";"
RECURSIVE PtxText(_, _)
PtxText(ops, k) ==
  IF k > Len(ops) THEN <<";">>
  ELSE (IF k > 1 THEN <<",", " ">> ELSE << >>) \o PtxOperand[ops[k]] \o PtxText(ops, k + 1)

\* PtxClassifier::OperandTypes, lines 33-54: the scan from character i on;
\* s holds res and the three flags
RECURSIVE PtxScan(_, _, _)
PtxScan(trimmed, i, s) ==
  IF i > Len(trimmed) THEN s.res
  ELSE LET ch == trimmed[i]
           outside == ~s.is_vec /\ ~s.is_mem
           sep == ch = "," \/ ch = ";"
       IN PtxScan(trimmed, i + 1,
            IF ch = "{" THEN [s EXCEPT !.is_vec = TRUE, !.res = @ \o <<"v">>]
            ELSE IF ch = "[" THEN [s EXCEPT !.is_mem = TRUE, !.res = @ \o <<"m">>]
            ELSE IF outside /\ ch = "%"
                 THEN [s EXCEPT !.is_reg = TRUE, !.res = @ \o <<"r">>]
            ELSE IF outside /\ ~s.is_reg /\ sep THEN [s EXCEPT !.res = @ \o <<"i">>]
            ELSE IF outside /\ s.is_reg /\ sep THEN [s EXCEPT !.is_reg = FALSE]
            ELSE IF ch = "}" \/ ch = "]"
                 THEN [s EXCEPT !.is_vec = FALSE, !.is_mem = FALSE]
            ELSE s)

\* the lambda to_weight of OperandTypes
ToWeight(t) ==
  CASE t = "i" -> 1 [] t = "r" -> 2 [] t = "v" -> 3 [] t = "m" -> 4 [] OTHER -> 0

\* OperandTypes, lines 75-84: the class of largest weight from res[i] on,
\* the first one found on a tie
RECURSIVE PtxHighest(_, _, _, _)
PtxHighest(res, i, weight, type) ==
  IF i > Len(res) THEN type
  ELSE IF weight < ToWeight(res[i])
       THEN PtxHighest(res, i + 1, ToWeight(res[i]), res[i])
       ELSE PtxHighest(res, i + 1, weight, type)

\* PtxClassifier::OperandTypes(operands)
PtxOperandTypes(operands) ==
  LET res == PtxScan(operands, 1,
                     [res |-> << >>, is_vec |-> FALSE, is_mem |-> FALSE,
                      is_reg |-> FALSE])
  IN IF Len(res) = 0 THEN <<"u">>
     ELSE << res[1], PtxHighest(res, 2, 0, "u") >>

InitPtx ==
  /\ AnalyserIdle
  /\ meter = NoMeter
  /\ \E ops \in PtxOperandLists :
       insn = [kind |-> "ptx", pc |-> "in", ops |-> ops,
               operands |-> PtxText(ops, 1), out |-> << >>]
  /\ csv = NoCsv /\ lister = NoLister /\ launcher = NoLauncher /\ pcm = NoPcm

\* a call of PtxClassifier::OperandTypes on the operands of the line
PtxOperandTypesCall ==
  /\ insn.kind = "ptx" /\ insn.pc = "in"
  /\ insn' = [insn EXCEPT !.out = PtxOperandTypes(insn.operands), !.pc = "out"]
  /\ UNCHANGED << alive, workers, sys, ctl, ret, active_pids, log, obs,
                  perf_ub, hist, sock, meter, csv, lister, launcher, pcm >>

\* the next line of the PTX listing
PtxNextLine ==
  /\ insn.kind = "ptx" /\ insn.pc = "out"
  /\ \E ops \in PtxOperandLists :
       insn' = [kind |-> "ptx", pc |-> "in", ops |-> ops,
                operands |-> PtxText(ops, 1), out |-> << >>]
  /\ UNCHANGED << alive, workers, sys, ctl, ret, active_pids, log, obs,
                  perf_ub, hist, sock, meter, csv, lister, launcher, pcm >>

NextPtx == PtxOperandTypesCall \/ PtxNextLine

SpecPtx == InitPtx /\ [][NextPtx]_vars

(* ---------------------- the reads of /proc/uptime ---------------------- *)
\* threads that trigger observers at the same time
MaxThreads == 2

UptimeThreads == 1..MaxThreads

\* the functions that read /proc/uptime: efimon::GetUptime (used by the
\* power, GPU and perf record observers) and the GetUptime of the four
\* /proc observers
UptimeReaders == {"efimon", "stat", "io", "net", "meminfo"}

\* the functions that open with std::scoped_lock lock(m_single_uptime)
LocksUptime(f) == f \in {"efimon", "stat", "io"}

InitUptime ==
  /\ AnalyserIdle
  /\ meter = [kind |-> "uptime", m_single_uptime |-> 0,
              t |-> [th \in UptimeThreads |-> [pc |-> "idle", f |-> "efimon"]]]
  /\ insn = NoInsn /\ csv = NoCsv /\ lister = NoLister
  /\ launcher = NoLauncher /\ pcm = NoPcm

\* a Trigger of an observer on thread th reaches its call of GetUptime
GetUptimeCall(th, f) ==
  /\ meter.kind = "uptime" /\ meter.t[th].pc = "idle"
  /\ meter' = [meter EXCEPT !.t[th] = [pc |-> "enter", f |-> f]]
  /\ SharedOnly

\* the first statement of the function: the scoped_lock of m_single_uptime
\* where the function has one
GetUptimeLock(th) ==
  /\ meter.kind = "uptime" /\ meter.t[th].pc = "enter"
  /\ IF LocksUptime(meter.t[th].f)
     THEN /\ meter.m_single_uptime = 0
          /\ meter' = [meter EXCEPT !.m_single_uptime = th, !.t[th].pc = "fopen"]
     ELSE meter' = [meter EXCEPT !.t[th].pc = "fopen"]
  /\ SharedOnly

\* fopen("/proc/uptime", "r"): the file is open until fclose
GetUptimeOpen(th) ==
  /\ meter.kind = "uptime" /\ meter.t[th].pc = "fopen"
  /\ meter' = [meter EXCEPT !.t[th].pc = "fscanf"]
  /\ SharedOnly

\* fscanf, fclose and the return, which releases the scoped_lock
GetUptimeReturn(th) ==
  /\ meter.kind = "uptime" /\ meter.t[th].pc = "fscanf"
  /\ meter' = [meter EXCEPT !.t[th].pc = "idle",
                            !.m_single_uptime = IF @ = th THEN 0 ELSE @]
  /\ SharedOnly

NextUptime ==
  \/ \E th \in UptimeThreads, f \in UptimeReaders : GetUptimeCall(th, f)
  \/ \E th \in UptimeThreads : GetUptimeLock(th)
  \/ \E th \in UptimeThreads : GetUptimeOpen(th)
  \/ \E th \in UptimeThreads : GetUptimeReturn(th)

SpecUptime == InitUptime /\ [][NextUptime]_vars

(* ================================ claims =============================== *)
\* the requests and the status codes of the replies kept in log
LogStates == [i \in 1..Len(log) |-> log[i].state]
LogCodes == [i \in 1..Len(log) |-> log[i].code]
LogResults == [i \in 1..Len(log) |-> log[i].result]

\* the control thread is inside stop_worker(p), waiting for the join
Stopping(p) == ctl.pc = "join_worker" /\ ctl.pid = p

\* C1: at most one worker and one worker thread exist per pid, and a
\* start_worker for a pid that has a registered worker returns RESOURCE_BUSY.
C1_OneWorkerPerPid ==
  /\ \A p \in AllPids :
       /\ workers[p].nthreads <= 1
       /\ (workers[p].nthreads = 1 <=> workers[p].thread)
       /\ (workers[p].thread => workers[p].registered)
  /\ (ret.op = "start_worker" /\ ret.pre) => (ret.code = "RESOURCE_BUSY" /\ ~ret.thrown)

C1_Witness ==
  /\ ret.op = "start_worker" /\ ret.pre /\ ret.code = "RESOURCE_BUSY"
  /\ workers[ret.pid].nthreads = 1

\* C2: a start_worker(pid) that follows a stop_worker(pid) which returned OK
\* succeeds for a pid that is still alive, with perf enabled or disabled.
C2_RestartAfterStop ==
  [][ ( /\ ret.op = "stop_worker" /\ ret.code = "OK"
        /\ ret' # ret /\ ret'.op = "start_worker" /\ ret'.pid = ret.pid
        /\ ret.pid \in alive )
      => (ret'.code = "OK" /\ ~ret'.thrown) ]_vars

\* C3: every stop_worker call eventually returns: the thread it stops sees
\* the cleared flag and ends, whatever the interleaving with its start-up.
C3_StopReturns == (ctl.pc = "join_worker") ~> (ctl.pc = "recv")

\* C4: once the loop of a worker has ended on a failed trigger for a vanished
\* process, the running flag is cleared and the worker reports STOPPED.
C4_VanishedReportsStopped ==
  \A p \in Pids :
    (workers[p].registered /\ workers[p].failed /\ p \notin alive)
      => (~workers[p].running /\ State(workers[p]) = "STOPPED")

\* C5: a worker counts one tick per iteration and one row per tick after the
\* first; a worker whose loop has ended without a failed trigger and without
\* a stop had a budget N > 0, made exactly N ticks and wrote N - 1 rows, and
\* has cleared its running flag: a budget of 0 never ends the loop.
C5_BudgetTicks ==
  \A p \in Pids :
    /\ (hist[p].ticks <= 1 => hist[p].rows = 0)
    /\ (workers[p].thread /\ ~workers[p].failed /\ workers[p].pc # "start"
          /\ hist[p].ticks >= 1 /\ hist[p].ticks < TickCap(hist[p]))
         => hist[p].rows = hist[p].ticks - 1
    /\ ( /\ workers[p].registered /\ workers[p].pc = "done"
         /\ ~workers[p].failed /\ ~Stopping(p) )
       => ( /\ hist[p].budget > 0
            /\ hist[p].ticks = hist[p].budget
            /\ hist[p].rows = hist[p].budget - 1
            /\ ~workers[p].running )

C5_Witness ==
  \E p \in Pids :
    /\ workers[p].registered /\ workers[p].pc = "done"
    /\ ~workers[p].failed /\ ~Stopping(p)
    /\ hist[p].budget = MaxSamples /\ hist[p].rows = MaxSamples - 1

\* C6: whenever check_worker can be called for a started worker, it reports
\* RUNNING until the loop of the worker has ended and STOPPED from then on.
C6_StateFollowsLoop ==
  \A p \in Pids :
    (ctl.pc = "recv" /\ workers[p].registered /\ workers[p].thread)
      => State(workers[p]) = (IF workers[p].pc = "done" THEN "STOPPED" ELSE "RUNNING")

\* C7: start_system returns OK exactly when no collector thread exists and
\* RESOURCE_BUSY otherwise, stop_system returns OK exactly when one exists and
\* NOT_FOUND otherwise, and there is never more than one collector thread.
C7_SystemStartStop ==
  /\ ret.op = "start_system" =>
       (ret.code = IF ret.pre THEN "RESOURCE_BUSY" ELSE "OK")
  /\ ret.op = "stop_system" =>
       (ret.code = IF ret.pre THEN "OK" ELSE "NOT_FOUND")
  /\ sys.nthreads <= 1
  /\ (sys.thread <=> sys.nthreads = 1)

C7_Witness ==
  /\ ret.op = "stop_system" /\ ret.code = "NOT_FOUND"
  /\ Len(log) >= 3
  /\ \E i \in 1..Len(log) : log[i].state /\ log[i].code = CodeOf("OK")

C9_OneRecordPerPid ==
  /\ \A pid \in 1..MaxPerfPid :
       Cardinality({o \in ObsIds : obs[o].live /\ obs[o].pid = pid}) <= 1
  /\ (ret.op \in {"ctor", "set_pid"} /\ ret.pre /\ ret.pid \in alive)
       => ret.code = "RESOURCE_BUSY"

\* C10: constructing a perf-record observer for a live pid right after the
\* only observer of that pid has been dropped succeeds.
C10_ReRegisterAfterDrop ==
  [][ ( /\ ret.op = "drop" /\ ~ret.pre /\ ret.pid \in alive
        /\ ret' # ret /\ ret'.op = "ctor" /\ ret'.pid = ret.pid )
      => (ret'.code = "OK" /\ ~ret'.thrown) ]_vars

\* the requests that are malformed or unknown
BadRequests == {"garbage", "no_transaction", "unknown", "missing_field"}

\* C11: a request that is no JSON, has no transaction, names an unknown
\* transaction or lacks a required member gets exactly one reply, built from
\* an INVALID_PARAMETER Status, and main goes on to the next receive.
C11_InvalidAnswered ==
  sock.req \in BadRequests
    => /\ sock.up
       /\ Len(sock.replies) = 1
       /\ sock.replies[1].code = "INVALID_PARAMETER"

\* C12: the reply to a poll for a pid with a registered worker carries in
\* result a decimal Status code, which check_monitor parses back into the
\* Status of the worker state and not into INVALID_PARAMETER.
C12_PollReportsState ==
  (sock.req = "poll" /\ workers[sock.pid].registered)
    => /\ Len(sock.replies) = 1
       /\ IsNumeric(sock.replies[1].result) /\ sock.replies[1].result # ""
       /\ ~CheckMonitor(sock.replies[1].result).thrown
       /\ ToString(CheckMonitor(sock.replies[1].result).code)
            = sock.replies[1].result
       /\ CheckMonitor(sock.replies[1].result).code
            # CodeOf("INVALID_PARAMETER")

\* C13: the first trigger of an observer leaves difference = 0, and a
\* successful trigger at uptime t2 that follows a successful trigger at
\* uptime t1 leaves timestamp = t2 and difference = t2 - t1.
C13_DifferenceChain ==
  (meter.kind = "stat" /\ meter.ret = "OK")
    => /\ meter.triggers = 1 => meter.difference = 0
       /\ meter.triggers = 2 => /\ meter.timestamp = meter.t2
                                /\ meter.difference = meter.t2 - meter.t1

\* C14: a trigger that returns a Status other than OK leaves the readings of
\* the observer (timestamp, difference and the measured values) as they were
\* at its entry.
C14_FailedTriggerKeepsReadings ==
  [][(meter.kind = "ipmi" /\ meter'.ret \notin {"none", "OK"})
       => IpmiReadings(meter') = IpmiReadings(meter)]_vars

\* C16: for each PSU, after any sequence of triggers the integrated energy
\* is the running sum, over the triggers so far, of the power read at the
\* trigger times the difference to the previous trigger (times 10^-3, the
\* unit of psu_energy here).
C16_EnergyIsRunningSum ==
  meter.kind = "ipmi"
    => \A i \in 0..(meter.num_psus_ - 1) : meter.psu_energy[i] = meter.sum[i]

\* C15: on hosts with one or with several sockets, a trigger after the first
\* reports for every socket it scans the energy counter of that socket read
\* at this trigger minus the counter read at the trigger before.
C15_SocketDelta ==
  (meter.kind = "rapl" /\ meter.triggers >= 1)
    => \A s \in 0..(meter.num_sockets - 1) :
         meter.both[s] => meter.socket_power[s] = meter.J2[s] - meter.J1[s]

\* the sum of the values of a map
RECURSIVE SumOf(_)
SumOf(map) ==
  IF DOMAIN map = {} THEN 0
  ELSE LET k == CHOOSE x \in DOMAIN map : TRUE
       IN map[k] + SumOf([x \in DOMAIN map \ {k} |-> map[x]])

\* C17: after every perf-annotate trigger, whatever the annotator printed and
\* however many triggers came before, the weights of the type/family/origin
\* taxonomy add up to the sum of the histogram values.
C17_LeavesSumToHistogram ==
  insn.kind = "annotate"
    => SumOf(insn.classification) = SumOf(insn.histogram)

\* a trigger after an earlier one has put two lines under one key
C17_Witness ==
  /\ insn.kind = "annotate" /\ insn.triggers = 2
  /\ Len(insn.lines) = 2
  /\ \E k \in DOMAIN insn.histogram : insn.histogram[k] > MaxPercent

\* the lines of the output parsed last that start with a number and whose
\* percent is above the threshold
KeptLines ==
  {i \in 1..Len(insn.lines) :
     /\ insn.lines[i].lead = "number"
     /\ insn.lines[i].percent > PERF_ANNOTATE_THRES}

\* <mnemonic>_<operandtypes> of a line
KeyOf(line) ==
  line.insn.assembly \o <<"_">> \o OperandTypes(line.insn.operands)

\* C18: after a parse the keys of the histogram are exactly the
\* <mnemonic>_<operandtypes> of the lines that start with a number and whose
\* percent is above the threshold, each key weighing the percents of those
\* lines; the other lines give no key and no weight.
C18_KeysAreKeptLines ==
  (insn.kind = "annotate" /\ insn.valid_)
    => /\ DOMAIN insn.histogram = {KeyOf(insn.lines[i]) : i \in KeptLines}
       /\ SumOf(insn.histogram) = SumOf([i \in KeptLines |-> insn.lines[i].percent])

\* one line kept and one line at the threshold dropped
C18_Witness ==
  /\ insn.kind = "annotate" /\ insn.valid_
  /\ Cardinality(KeptLines) = 1
  /\ \E i \in 1..Len(insn.lines) :
       /\ insn.lines[i].lead = "number"
       /\ insn.lines[i].percent = PERF_ANNOTATE_THRES
  /\ DOMAIN insn.histogram # {}

\* the classes Classify packed: a from operands[0], the output class, and b
\* from operands[1], the input class
OutputClass == DetOrigin(insn.operands[1])
InputClass == DetOrigin(insn.operands[2])

\* Classify has packed an origin from two classes: the mnemonic is not
\* empty and there are two operand classes
Packed ==
  insn.kind = "classify" /\ insn.inst # << >> /\ Len(insn.operands) = 2

\* C19 as stated: decomposing the origin packed from (a, b), a the output
\* class and b the input class, returns the pair (a, b) in that order.
C19_Original ==
  (Packed /\ insn.pc = "decomposed") => insn.pair = <<OutputClass, InputClass>>

\* C19, amended: decomposing the origin packed from (a, b), a the output
\* class and b the input class, returns the pair (b, a): the input class
\* first, the output class second.
C19_Amended ==
  (Packed /\ insn.pc = "decomposed") => insn.pair = <<InputClass, OutputClass>>

\* the origin packed from (Register, Memory) has been decomposed
C19_Witness ==
  /\ Packed /\ insn.pc = "decomposed"
  /\ insn.operands = <<"r", "m">>
  /\ insn.pair = <<DataOrigin.MEMORY, DataOrigin.REGISTER>>

\* the substring sets of the families, in the order they are tried
ArithmeticWords ==
  {<<"a", "d", "d">>, <<"s", "u", "b">>, <<"d", "i", "v">>,
   <<"m", "u", "l">>, <<"d", "p">>, <<"a", "b", "s">>,
   <<"s", "i", "g", "n">>, <<"a", "v", "g">>, <<"d", "e", "c">>,
   <<"i", "n", "c">>, <<"n", "e", "g">>}
\* Logic, combined with bit manipulation
LogicWords ==
  {<<"a", "n", "d">>, <<"o", "r">>, <<"s", "h", "l">>, <<"s", "h", "r">>,
   <<"s", "l", "l">>, <<"s", "r", "a">>, <<"s", "r", "l">>,
   <<"t", "e", "r", "n">>, <<"t", "e", "s", "t">>, <<"x", "o", "r">>,
   <<"c", "m", "p">>, <<"n", "o", "t">>, <<"s", "h", "u", "f">>,
   <<"l", "z", "c", "n">>, <<"c", "v", "t">>, <<"b", "l", "e", "n", "d">>,
   <<"p", "e", "r", "m">>, <<"e", "x", "t", "r", "a", "c", "t">>,
   <<"c", "o", "m", "p", "r", "e", "s", "s">>,
   <<"i", "n", "s", "e", "r", "t">>, <<"u", "n", "p", "c", "k">>}
\* Memory
MemoryWords ==
  {<<"e", "x", "p", "a", "n", "d">>, <<"g", "a", "t", "h", "e", "r">>,
   <<"s", "c", "a", "t", "t", "e", "r">>, <<"m", "o", "v">>,
   <<"s", "t", "o">>, <<"l", "a", "h">>, <<"l", "d", "s">>,
   <<"l", "e", "a">>, <<"l", "e", "s">>, <<"l", "o", "d">>}
\* Jump
JumpWords ==
  {<<"j", "m", "p">>}
\* Branch
BranchWords ==
  {<<"j", "a">>, <<"j", "b">>, <<"j", "c">>, <<"j", "e">>, <<"j", "g">>,
   <<"j", "l">>, <<"j", "l", "e">>, <<"j", "n">>, <<"j", "o">>,
   <<"j", "p">>, <<"j", "s">>, <<"j", "z">>}

\* the family of the first set with a word that is a substring of inst
FirstFamily(inst) ==
  IF \E w \in ArithmeticWords : StrFind(inst, w) # 0 THEN "ARITHMETIC"
  ELSE IF \E w \in LogicWords : StrFind(inst, w) # 0 THEN "LOGIC"
  ELSE IF \E w \in MemoryWords : StrFind(inst, w) # 0 THEN "MEMORY"
  ELSE IF \E w \in JumpWords : StrFind(inst, w) # 0 THEN "JUMP"
  ELSE IF \E w \in BranchWords : StrFind(inst, w) # 0 THEN "BRANCH"
  ELSE "OTHER"

\* the type that goes with a family and a first character
TypeFor(inst, family) ==
  IF family \notin {"ARITHMETIC", "LOGIC", "MEMORY"} THEN "UNCLASSIFIED"
  ELSE IF inst[1] \in {"v", "p"} THEN "VECTOR"
  ELSE "SCALAR"

\* a mnemonic in the spelling the annotator prints: no capital first letter
Printed(inst) ==
  inst # << >> /\ \A k \in 1..Len(UpperCase) : inst[1] # UpperCase[k]

RECURSIVE InSchemaOrder(_, _, _)
InSchemaOrder(line, fields, cell) ==
  IF fields = << >> THEN line
  ELSE InSchemaOrder(line \o "," \o cell[Head(fields)[1]], Tail(fields), cell)

\* C21: the header is ID followed by the schema's field names in the order
\* in which the schema lists them, and the last row written lists its
\* values in that same order
C21_SchemaOrder ==
  csv.kind = "csv" =>
    /\ csv.text[1] = InSchemaOrder("ID", csv.fields, [k \in FieldNames |-> k])
    /\ csv.rows > 0 =>
         csv.text[Len(csv.text)] =
           InSchemaOrder(ToString(csv.last_id_ - 1), csv.fields,
                         [k \in FieldNames |->
                            IF csv.vals[k] # Absent THEN Stringify(csv.vals[k])
                            ELSE ""])

\* C22: a closed file gets LOGGER_CANNOT_INSERT and no line; an open one
\* gets one line and OK, with a message whenever a schema field is absent
\* from the row, whatever other keys the row carries
C22_InsertRowStatus ==
  (csv.kind = "csv" /\ csv.rows > 0) =>
    /\ csv.ret.code = "OK"
    /\ Len(csv.text) = csv.rows + 1
    /\ (\E k \in TableKeys(csv.fields) : csv.vals[k] = Absent) => csv.ret.msg # ""

Range(v) == { v[i] : i \in DOMAIN v }

\* C23: after a detect, new is what was found now and was not in the
\* previous last, and dead is what was in the previous last and was not
\* found now (last being what was found now)
C23_NewAndDead ==
  (lister.kind = "lister" /\ lister.detects > 0) =>
    /\ Range(lister.new_) = Range(lister.last_) \ Range(lister.before)
    /\ Range(lister.dead_) = Range(lister.before) \ Range(lister.last_)

\* C24: in command mode and in pid mode alike, the start request, every
\* poll and the stop request carry the pid of the target process, and a
\* launcher that has sent its start request and has ended has sent the stop
\* request and ended with code 0
C24_SamePidThenExit0 ==
  launcher.kind = "launcher" =>
    /\ launcher.starts \subseteq {AsUint(launcher.target)}
    /\ launcher.polls \subseteq {AsUint(launcher.target)}
    /\ launcher.stops \subseteq {AsUint(launcher.target)}
    /\ (launcher.pc = "exited" /\ launcher.starts # {}) =>
         (launcher.exit = "0" /\ launcher.stops = {AsUint(launcher.target)})

\* C25: once the handler has run for a SIGINT, a launcher that started a
\* child at some time has sent the stop request and has ended
C25_SigintEnds ==
  (launcher.kind = "launcher" /\ launcher.mode = "command" /\ launcher.sigint)
    ~> (launcher.pc = "exited" /\ launcher.stops # {})

\* obs[1] makes a step of its Trigger that returns OK
RecordTriggersOk ==
  Trigger(1) /\ ret'.op = "trigger" /\ ret'.code = "OK"

\* obs[1] makes a step that leaves it without a valid trace: it is
\* constructed, it is reset, or a SetPID of it fails
RecordLosesTrace ==
  \/ \E pid \in PerfPids : PerfRecordObserverCtor(1, pid) /\ obs'[1].live
  \/ PerfRecordReset(1)
  \/ \E pid \in PerfPids : SetPID(1, pid) /\ ret'.code # "OK"

\* the annotate observer makes a step of its Trigger
AnnotateTriggers ==
  \E pipe \in BOOLEAN, lines \in PairOutputs : PerfAnnotateTrigger(1, pipe, lines)

\* C26: the record observer has no valid trace after its construction, a
\* reset or a failed set_pid, and gets one only by a trigger of its own
\* that succeeds; a trigger of the annotate observer while there is none
\* returns NOT_READY, leaves the readings alone and does not run the
\* annotator
C26_RefusedWithoutTrace ==
  [][ /\ RecordLosesTrace => ~obs'[1].valid
      /\ (~obs[1].valid /\ obs'[1].valid) => RecordTriggersOk
      /\ (AnnotateTriggers /\ ~obs[1].valid) =>
           /\ ret'.code = "NOT_READY"
           /\ insn'.histogram = insn.histogram
           /\ insn'.classification = insn.classification
           /\ insn'.valid_ = insn.valid_
           /\ ~insn'.invoked ]_vars

\* readings were parsed once, and the last trigger of the annotate observer
\* was refused because the record observer had lost its trace
C26_Witness ==
  /\ insn.kind = "pair" /\ insn.valid_ /\ DOMAIN insn.histogram # {}
  /\ ret.op = "annotate" /\ ret.code = "NOT_READY"
  /\ ~insn.invoked /\ ~obs[1].valid

\* C27 as stated: a constructor called for SYSTEM scope while an observer
\* exists throws RESOURCE_BUSY
C27_Original ==
  (pcm.kind = "intel" /\ pcm.last.owned /\ pcm.last.code # "INVALID_PARAMETER")
    => (pcm.last.thrown /\ pcm.last.code = "RESOURCE_BUSY")

\* C27 as amended: no constructor called while an observer exists throws
\* RESOURCE_BUSY, and a constructor called for SYSTEM scope while the first
\* observer is the only one returns and leaves a second observer
C27_Amended ==
  pcm.kind = "intel" =>
    /\ pcm.last.owned => pcm.last.code # "RESOURCE_BUSY"
    /\ (pcm.last.owned /\ Len(pcm.valid_) = 1)
         => (pcm.last.code = "INVALID_PARAMETER" /\ pcm.last.thrown)

\* the second observer has been constructed while the first one existed
C27_Witness ==
  /\ pcm.kind = "intel" /\ Len(pcm.valid_) = 2
  /\ pcm.last.owned /\ pcm.last.code = "OK" /\ ~pcm.last.thrown

\* C28: when the last call, a start_worker for a pid that had no worker,
\* returned a Status other than OK or threw, no worker is registered for
\* that pid
C28_FailedStartLeavesNoWorker ==
  ( /\ ret.op = "start_worker" /\ ~ret.pre
    /\ (ret.code # "OK" \/ ret.thrown) )
    => ~workers[ret.pid].registered

\* C29: a step of SetPID that returns NOT_FOUND or RESOURCE_BUSY leaves the
\* pid of the observer and the vector of active pids as they were
C29_FailedSetPidChangesNothing ==
  [][ \A o \in ObsIds, pid \in PerfPids :
        (SetPID(o, pid) /\ ret'.code # "OK")
          => (obs'[o].pid = obs[o].pid /\ active_pids' = active_pids) ]_vars

\* C30: whenever main is back at its receive, it has sent as many replies
\* as it has received requests, the last request has got one send and the
\* socket is still in use
C30_OneReplyPerRequest ==
  /\ sock.sends = sock.recvs
  /\ sock.req # "none" => Len(sock.replies) = 1
  /\ sock.up

\* C31: a step of SetPID(q) that returns OK on an observer whose pid p is in
\* the vector of active pids, with q # p and q not in the vector, leaves p out
\* of the vector and q in it, and the observer's pid, temporary folder and
\* perf command all name q
C31_SetPidMovesRegistration ==
  [][ \A o \in ObsIds, q \in PerfPids :
        ( /\ SetPID(o, q)
          /\ obs[o].pid # 0 /\ Find(active_pids, obs[o].pid) # 0
          /\ q # obs[o].pid /\ Find(active_pids, q) = 0
          /\ ret'.code = "OK" )
          => ( /\ Find(active_pids', obs[o].pid) = 0
               /\ Find(active_pids', q) # 0
               /\ obs'[o].pid = q /\ obs'[o].tmp_pid = q /\ obs'[o].cmd_pid = q ) ]_vars

\* a SetPID has just returned OK after taking the registration of another,
\* registered pid out, and an observer now holds the new pid
C31_Witness ==
  /\ ret.op = "set_pid" /\ ret.code = "OK"
  /\ ret.erased # 0 /\ ret.erased # ret.pid
  /\ \E o \in ObsIds : obs[o].live /\ obs[o].pid = ret.pid /\ obs[o].cmd_pid = ret.pid

\* C32: the collector writes the shared readings, and a worker reads them,
\* only inside sys_mutex_, which one thread holds at a time, and the copy
\* GetReadings has made for a worker is never one of a sample the collector
\* was still writing
C32_ReadingsUnderMutex ==
  /\ Cardinality(meter.sys_mutex_) <= 1
  /\ meter.c.pc \in {"publish", "published", "trigger", "written", "unlock"}
       => 0 \in meter.sys_mutex_
  /\ \A r \in Readers :
       /\ meter.w[r].at \in {"locked", "copied"} => r \in meter.sys_mutex_
       /\ meter.w[r].at = "copied" => meter.w[r].out.whole

\* a worker holds the copy of a sample the collector has refreshed, while
\* the collector waits for the mutex of its next refresh
C32_Witness ==
  \E r \in Readers :
    /\ meter.w[r].at = "copied" /\ meter.w[r].code = "OK"
    /\ meter.w[r].out.fresh
    /\ meter.c.pc = "refresh"

\* C35: once a worker has built its log table, the table has one PSU, one
\* fan and one socket column per PSU, fan and socket in the readings of the
\* system observers, whenever the worker was started
C35_ColumnsMatchCollector ==
  \A r \in Readers :
    meter.w[r].phase = "log"
      => \A i \in Counted3 : meter.w[r].table[i] = meter.units

\* C33 as stated: the control thread is never inside the join of a worker
\* whose thread is inside its perf record window or its sleep
C33_Original ==
  ~( ctl.pc = "join_worker" /\ workers[ctl.pid].pc \in Blocking )

\* C33, amended: the control thread starts to wait on the thread of a worker
\* only in a stop request for that worker, after clearing its running flag;
\* every other request leaves it at its receive, whatever call the worker
\* is inside
C33_WaitsOnlyInStop ==
  [][ /\ \A p \in AllPids :
           (ctl.pc = "recv" /\ ctl'.pc = "join_worker" /\ ctl'.pid = p)
             => (StopWorkerThread(p) /\ ~workers'[p].running)
      /\ ( /\ ctl.pc = "recv"
           /\ \/ \E p \in AllPids : StartWorkerRequest(p)
              \/ \E p \in AllPids : CheckWorkerThread(p) )
           => ctl'.pc = "recv" ]_vars

\* a check request has just been answered while the worker it asked about
\* is inside its perf record window
C33_Witness ==
  /\ ret.op = "check_worker" /\ ret.code = "RUNNING"
  /\ workers[ret.pid].pc = "perf_record"
  /\ ctl.pc = "recv"

\* C34: the worker goes back to the head of its loop, where it triggers its
\* observers again, only from its sleep
C34_SleepsEveryTick ==
  [][ \A p \in Pids :
        (workers[p].pc \in {"log", "sleep"} /\ workers'[p].pc = "check")
          => workers[p].pc = "sleep" ]_vars

\* the weight of the origins in s
RECURSIVE WeightOf(_, _)
WeightOf(family, s) ==
  IF s = {} THEN 0
  ELSE LET o == CHOOSE x \in s : TRUE
       IN family[o] + WeightOf(family, s \ {o})

\* the number in the cell of a column of the row (none: 0)
CellOf(values, column) == IF column \in DOMAIN values THEN values[column] ELSE 0

ProbabilityColumns ==
  {"ProbabilityRegister", "ProbabilityMemLoad", "ProbabilityMemStore",
   "ProbabilityMemUpdate"}

\* C36: in a logged row each of the four probability columns of a (type,
\* family) holds the sum of the weights of the origins that map to it, so
\* that the four together hold the total weight of the (type, family)
C36_ColumnsSumToTotal ==
  (insn.kind = "log" /\ insn.pc = "logged")
    => \A column \in ProbabilityColumns :
         CellOf(insn.values, column) =
           WeightOf(insn.classification,
                    {o \in DOMAIN insn.classification : ColumnOf(o) = column})

\* C37: between the calls on the native-counter observers pcm_mutex_ is
\* free: every constructor that has returned or thrown has released it, so
\* that a Trigger never finds it locked
C37_MutexReleasedOnExit ==
  pcm.kind = "intel" => pcm.pcm_mutex_ = "free"

\* C38: a Trigger of the process-stat observer that reads the state zombie
\* ('Z') or dead ('X') leaves the readings of the observer as they were
C38_NoUpdateWhenZombieOrDead ==
  [][ \A exits \in BOOLEAN, state \in {"Z", "X"}, usage \in 0..1 :
        StatTrigger(exits, state, usage)
          => /\ meter'.timestamp = meter.timestamp
             /\ meter'.difference = meter.difference
             /\ meter'.overall_usage = meter.overall_usage ]_vars

\* the classes of the input operands of the line
PtxInputs == { insn.ops[k] : k \in 2..Len(insn.ops) }

\* C39: the pair returned for an operand list has two characters: the class
\* of the first (output) operand, then the class of greatest rank among the
\* input operands in the order i < r < v < m, which is the class of no
\* operand when the line has no input operand
C39_OutputAndHighestInput ==
  (insn.kind = "ptx" /\ insn.pc = "out")
    => /\ Len(insn.out) = 2
       /\ insn.out[1] = insn.ops[1]
       /\ IF PtxInputs = {} THEN insn.out[2] \notin PtxClasses
          ELSE /\ insn.out[2] \in PtxInputs
               /\ \A c \in PtxInputs : ToWeight(c) <= ToWeight(insn.out[2])

\* C40: at most one thread has /proc/uptime open at a time, and a thread
\* that has it open holds m_single_uptime, whichever observer it serves
C40_UptimeReadSerialised ==
  meter.kind = "uptime"
    => /\ Cardinality({ th \in UptimeThreads : meter.t[th].pc = "fscanf" }) <= 1
       /\ \A th \in UptimeThreads :
            meter.t[th].pc = "fscanf" => meter.m_single_uptime = th
====
